---- MODULE Spec2Model ----
(***************************************************************************)
(* z-index-world: the content script's collision world (dist/content-      *)
(* script.js).  DOM elements with an explicit z-index become boxes, a      *)
(* uniform grid indexes them, and physics(dt) moves the player one axis    *)
(* at a time.                                                              *)
(*                                                                         *)
(* Numbers.  The script computes with doubles in pixels, pixels/second     *)
(* and seconds.  The model keeps the same quantities exact on a lattice:   *)
(*   time      in ticks of 1/600 s   (1/60 s = 10 ticks, 0.1 s = 60 ticks) *)
(*   velocity  in 1/6 px/s                                                 *)
(*   position  in 1/3600 px                                                *)
(* so that v*dt and GRAVITY*dt are integers for every dt of the lattice.   *)
(***************************************************************************)
EXTENDS Integers, Sequences, FiniteSets, TLC

TicksPerSecond == 6 * 100
VU == 2 * 3
PX == VU * TicksPerSecond

Min(a, b) == IF a < b THEN a ELSE b
Max(a, b) == IF a > b THEN a ELSE b

(***************************************************************************)
(* Constants of the script                                                 *)
(***************************************************************************)
BOX_D == 80
GRID_CELL == 200
VIEWPORT_MARGIN == 300
PLAYER_SIZE == 20
PLAYER_DEPTH == 20
Z_MAX == 10000
STEP_HEIGHT == 32
MOVE_SPEED == 300
GRAVITY == 700
MIN_JUMP_VZ == 300
\* JUMP_MARGIN = 1.3, kept as the fraction JUMP_MARGIN_NUM / 10
JUMP_MARGIN_NUM == 13
\* rect.width < 10 || rect.height < 10
MIN_RECT == 10
\* thickness of the base floor: d: 1
FLOOR_D == 1
\* Math.min(..., 0.1) in loop(): 0.1 s in ticks
MaxDt == TicksPerSecond \div 10

EXCLUDED_TAGS ==
  {"HTML", "BODY", "HEAD", "SCRIPT", "STYLE", "META", "LINK", "NOSCRIPT",
   "BR", "WBR", "TEMPLATE", "SLOT", "SVG", "PATH", "IFRAME"}

(***************************************************************************)
(* Bounds of the model                                                     *)
(***************************************************************************)
\* frames and key events of a session on a page that stays as it is
MaxFrames == 3
MaxKeyEvents == 2
\* ... of a session long enough for a fall from a platform
MaxFallFrames == 5
MaxFallKeyEvents == 1
\* ... of a session long enough for two jumps
MaxJumpFrames == 4
MaxJumpKeyEvents == 3
\* frames, key events and page changes, taken together, of a session on a
\* changing page
MaxWorldEvents == 3
\* a game left alone
MaxRestFrames == 10
\* a player placed near the Goal
MaxGoalFrames == 1
MaxGoalKeyEvents == 1
\* torn-down and restarted games: frames and key events together
MaxSessionEvents == 3
\* a walk across a platform, key held
MaxPlatformFrames == 20
\* a tab that is toggled: calls of toggleGame, and frames
MaxToggles == 3
MaxToggleFrames == 1
\* a session in which the focus moves into a text field: frames in all,
\* frames before the focus moves, key events
MaxFocusFrames == 4
FocusFrame == 2
MaxFocusKeyEvents == 3
\* a jump under a box: frames, key events
MaxCeilingFrames == 6
MaxCeilingKeyEvents == 1
\* a fall onto boxes that overlap: frames
MaxDropFrames == 14
\* a tab that navigates: calls of toggleGame, and navigations
MaxNavToggles == 2
MaxNavigations == 2
\* restarts from the Goal: frames and presses of the key r
MaxRestartFrames == 3
MaxRestartKeyEvents == 2
\* a walk among boxes that lie over one another: frames
MaxStackFrames == 16
\* a walk towards a wall: frames
MaxWallFrames == 5
\* a jump: frames at rest before it, frames in the air, key events, and the
\* depth below the page (px) down to which a fall is followed
MaxArcRestFrames == 3
MaxArcFrames == 800
MaxArcKeyEvents == 1
MaxArcDepth == 200

\* gaps between two animation-frame timestamps, in ticks: 1/60 s and a
\* stall of 0.15 s
FrameGaps == {10, 90}
\* scroll offsets of the window, px
ScrollOffsets == {0, 40}
\* 1/60 s in ticks
SixtiethGap == TicksPerSecond \div 60

(***************************************************************************)
(* Strings are sequences of one-character strings                          *)
(***************************************************************************)
IsDigit(c) == c \in {"0", "1", "2", "3", "4", "5", "6", "7", "8", "9"}

DigitVal(c) ==
  CASE c = "0" -> 0 [] c = "1" -> 1 [] c = "2" -> 2 [] c = "3" -> 3
    [] c = "4" -> 4 [] c = "5" -> 5 [] c = "6" -> 6 [] c = "7" -> 7
    [] c = "8" -> 8 [] c = "9" -> 9

RECURSIVE ParseDigits(_, _, _, _)
\* reads digits of s from position i on; acc is the value so far, seen
\* tells whether a digit was read
ParseDigits(s, i, acc, seen) ==
  IF i <= Len(s) /\ IsDigit(s[i])
  THEN ParseDigits(s, i + 1, acc * 10 + DigitVal(s[i]), TRUE)
  ELSE [nan |-> ~seen, val |-> acc]

\* parseInt(str, 10): optional sign, then the leading digits; NaN without one
ParseInt(s) ==
  IF Len(s) >= 1 /\ s[1] = "-"
  THEN LET r == ParseDigits(s, 2, 0, FALSE) IN [nan |-> r.nan, val |-> 0 - r.val]
  ELSE IF Len(s) >= 1 /\ s[1] = "+"
  THEN ParseDigits(s, 2, 0, FALSE)
  ELSE ParseDigits(s, 1, 0, FALSE)

StartsWith(s, prefix) ==
  /\ Len(s) >= Len(prefix)
  /\ SubSeq(s, 1, Len(prefix)) = prefix

AUTO == <<"a", "u", "t", "o">>
DOM3D_PREFIX == <<"d", "o", "m", "3", "d", "-">>

(***************************************************************************)
(* The page.  A layout lists the page's elements with their computed       *)
(* style and their rectangle in page coordinates (px).  Element i is the   *)
(* same DOM node in every layout; a page change keeps the nodes and        *)
(* changes their style.                                                    *)
(***************************************************************************)
El(tag, id, display, visibility, position, zIndex, left, top, width, height, cssTransform) ==
  [tag |-> tag, id |-> id, display |-> display, visibility |-> visibility,
   position |-> position, zIndex |-> zIndex,
   left |-> left, top |-> top, width |-> width, height |-> height,
   cssTransform |-> cssTransform]

NoId == <<>>
Hidden == El("DIV", NoId, "none", "visible", "absolute", <<"5">>, 300, 200, 50, 50, "none")

\* a small platform under the spawn point, a step to its right, a far
\* tower, a negative z-index, an auto z-index, and below the platform a
\* step of exactly STEP_HEIGHT
LayoutStairs ==
  [docW |-> 600, docH |-> 400, vw |-> 600, vh |-> 400,
   els |-> <<
     El("DIV", NoId, "block", "visible", "relative", <<"0">>, 285, 185, 30, 30, "none"),
     El("DIV", NoId, "block", "visible", "absolute", <<"2", "0">>, 315, 185, 30, 30, "translateX"),
     El("DIV", NoId, "block", "visible", "fixed", <<"1", "2", "0", "0", "0">>, 20, 20, 50, 50, "none"),
     El("DIV", NoId, "block", "visible", "absolute", <<"-", "5">>, 450, 50, 40, 40, "none"),
     El("DIV", NoId, "block", "visible", "relative", AUTO, 280, 230, 60, 60, "none"),
     El("DIV", NoId, "block", "visible", "absolute", <<"3", "2">>, 285, 215, 30, 30, "none") >>]

\* the spawn point on the bare floor, a low ceiling to its right
LayoutCeiling ==
  [docW |-> 600, docH |-> 400, vw |-> 600, vh |-> 400,
   els |-> <<
     El("DIV", NoId, "block", "visible", "absolute", <<"2", "5">>, 315, 185, 60, 30, "none"),
     El("DIV", NoId, "block", "hidden", "absolute", <<"3">>, 200, 100, 50, 50, "none"),
     El("DIV", NoId, "block", "visible", "static", AUTO, 250, 150, 100, 100, "none"),
     El("SPAN", NoId, "block", "visible", "absolute", <<"9">>, 305, 220, 8, 8, "none"),
     El("DIV", NoId, "block", "visible", "absolute", <<"4">>, 200, 1000, 50, 50, "none"),
     El("DIV", DOM3D_PREFIX \o <<"x">>, "block", "visible", "fixed", <<"9", "9">>, 0, 0, 600, 400, "none") >>]

\* no eligible element in the unscrolled window: the world is the floor
\* alone; the document is taller than the window, and a z-index 0 element
\* far below the fold comes within the scan margin once the page is scrolled
LayoutEmpty ==
  [docW |-> 600, docH |-> 800, vw |-> 600, vh |-> 400,
   els |-> <<
     Hidden,
     El("DIV", NoId, "block", "visible", "absolute", <<>>, 100, 100, 50, 50, "none"),
     El("DIV", NoId, "block", "visible", "absolute", <<"x">>, 150, 100, 50, 50, "none"),
     El("DIV", NoId, "block", "visible", "absolute", <<"0">>, 100, 720, 50, 50, "none"),
     El("SCRIPT", NoId, "block", "visible", "absolute", <<"1">>, 300, 100, 50, 50, "none"),
     El("DIV", NoId, "block", "visible", "absolute", <<"6">>, 1400, 100, 50, 50, "none") >>]

Layouts == <<LayoutStairs, LayoutCeiling, LayoutEmpty>>
ElIds == 1..Len(LayoutStairs.els)

\* the confetti pieces showCelebration() appends to the body, after the
\* page's elements.  Of the 50 pieces with random left, width and height
\* in [8, 16) two stand for the rest: one of 12 x 12 px part of the way
\* down its fall, one of 8 x 8 px.  The animation gives each a computed
\* transform.
ConfettiPieces ==
  << El("DIV", NoId, "block", "visible", "fixed",
        <<"2", "1", "4", "7", "4", "8", "3", "6", "4", "7">>, 70, 15, 12, 12, "matrix"),
     El("DIV", NoId, "block", "visible", "fixed",
        <<"2", "1", "4", "7", "4", "8", "3", "6", "4", "7">>, 400, 300, 8, 8, "matrix") >>
ConfettiIds == (Len(LayoutStairs.els) + 1)..(Len(LayoutStairs.els) + Len(ConfettiPieces))

\* the document a scan walks: page l, with the confetti while the
\* celebration is shown
Document(l, celebrating) ==
  IF celebrating THEN [Layouts[l] EXCEPT !.els = @ \o ConfettiPieces]
  ELSE Layouts[l]

(***************************************************************************)
(* State                                                                   *)
(***************************************************************************)
VARIABLES
  layout,            \* the page: index into Layouts
  scrollY,           \* window.scrollY, px
  inlineTransform,   \* el.style.transform of every page element
  modifiedElements,  \* [{el, originalTransform}]
  boxes,             \* the box list
  grid,              \* Map cellKey -> box[]
  startBox, goalBox,
  player,            \* {x, y, z, w, h, d, vx, vy, vz}
  keys,              \* {h, j, k, l, space}
  jumpQueued, isGrounded, groundZ, jumpVz,
  goalReached,
  celebrationEl,     \* the celebration panel is shown
  confetti,          \* the confetti pieces are in the document
  running,
  rafId,             \* a frame callback is requested
  scanTimerId,       \* the scan interval is set
  inputListeners,    \* onKeyDown / onKeyUp are registered
  scrollListeners,   \* onScrollResize is registered for scroll and resize
  restartListener,   \* onRestartKey is registered
  messageListener,   \* the cleanup message listener is registered
  bodyTransformStyle,          \* document.body.style.transformStyle
  originalBodyTransformStyle,
  tabStates,         \* background: Map tabId -> boolean, for the one tab of the model
  badgeText,         \* the tab's badge: '' or 'ON'
  toggleCalls,       \* background: the calls of toggleGame that are not finished, oldest first
  lastTime,          \* timestamp of the last frame, ticks
  frames, keyEvents, pageChanges,  \* counters that bound the exploration
  toggleCount,       \* history: calls of toggleGame so far
  jumpsThisPress     \* history: jumps started since the space key last went down from up

vars == <<layout, scrollY, inlineTransform, modifiedElements, boxes, grid,
          startBox, goalBox, player, keys, jumpQueued, isGrounded, groundZ,
          jumpVz, goalReached, celebrationEl, confetti, running, rafId, scanTimerId,
          inputListeners, scrollListeners, restartListener, messageListener,
          bodyTransformStyle, originalBodyTransformStyle,
          tabStates, badgeText, toggleCalls,
          lastTime, frames, keyEvents, pageChanges, toggleCount, jumpsThisPress>>

\* what init() registers and cleanup() takes away again
callbacks == <<rafId, scanTimerId, inputListeners, scrollListeners, messageListener>>
\* the celebration panel, its restart key and the confetti
celebration == <<celebrationEl, restartListener, confetti>>
\* the style of the page's body
bodyStyle == <<bodyTransformStyle, originalBodyTransformStyle>>
\* the service worker's state and the badge
background == <<tabStates, badgeText, toggleCalls, toggleCount>>
\* the page and the content script's state
content == <<layout, scrollY, inlineTransform, modifiedElements, boxes, grid,
             startBox, goalBox, player, keys, jumpQueued, isGrounded, groundZ,
             jumpVz, goalReached, celebrationEl, confetti, running, rafId,
             scanTimerId, inputListeners, scrollListeners, restartListener,
             messageListener, bodyTransformStyle, originalBodyTransformStyle,
             lastTime, frames, keyEvents, pageChanges, jumpsThisPress>>

\* null for startBox / goalBox
NoBox == [id |-> 0]

(***************************************************************************)
(* 3D AABB overlap, one axis at a time                                     *)
(***************************************************************************)
overlapX(a, b) == a.x < b.x + b.w /\ a.x + a.w > b.x
overlapY(a, b) == a.y < b.y + b.h /\ a.y + a.h > b.y
\* defect variant of overlapZ: touching ranges count as overlapping
overlapZTouching(a, b) == a.z <= b.z + b.d /\ a.z + a.d >= b.z

overlapZ(a, b) == a.z < b.z + b.d /\ a.z + a.d > b.z
intersects(a, b) == overlapX(a, b) /\ overlapY(a, b) /\ overlapZ(a, b)

(***************************************************************************)
(* Uniform grid                                                            *)
(***************************************************************************)
CellSize == GRID_CELL * PX

\* defect variant of CellsOf: a box is filed under the cell of its origin only
CellsOfOrigin(box) == {<<box.x \div CellSize, box.y \div CellSize>>}

\* the cells buildGrid pushes a box into
CellsOf(box) ==
  LET x1 == box.x \div CellSize
      x2 == (box.x + box.w) \div CellSize
      y1 == box.y \div CellSize
      y2 == (box.y + box.h) \div CellSize
  IN  {<<cx, cy>> : cx \in x1..x2, cy \in y1..y2}

\* every cell's list holds the boxes that cover it, in the order of boxList
buildGrid(boxList) ==
  LET cells == UNION {CellsOf(boxList[i]) : i \in 1..Len(boxList)}
  IN  [key \in cells |-> SelectSeq(boxList, LAMBDA b : key \in CellsOf(b))]

Range(s) == {s[i] : i \in 1..Len(s)}

RECURSIVE AddAll(_, _, _)
\* result.add(b) for the boxes of list from position i on; the set so far
\* is computed (next = next) before the loop goes on
AddAll(result, list, i) ==
  IF i > Len(list) THEN result
  ELSE LET next == IF list[i] \in Range(result) THEN result
                   ELSE Append(result, list[i])
       IN  IF next = next THEN AddAll(next, list, i + 1) ELSE next

RECURSIVE QueryCells(_, _, _, _, _, _, _)
\* the two nested loops of queryNearby, from cell (cx, cy) on
QueryCells(g, result, cx, cy, x2, y1, y2) ==
  IF cx > x2 THEN result
  ELSE IF cy > y2 THEN QueryCells(g, result, cx + 1, y1, x2, y1, y2)
  ELSE LET next == IF <<cx, cy>> \in DOMAIN g THEN AddAll(result, g[<<cx, cy>>], 1)
                   ELSE result
       IN  IF next = next THEN QueryCells(g, next, cx, cy + 1, x2, y1, y2) ELSE next

queryNearbyIn(g, p) ==
  LET margin == CellSize
      x1 == (p.x - margin) \div CellSize
      x2 == (p.x + p.w + margin) \div CellSize
      y1 == (p.y - margin) \div CellSize
      y2 == (p.y + p.h + margin) \div CellSize
  IN  QueryCells(g, <<>>, x1, y1, x2, y1, y2)

queryNearby(p) == queryNearbyIn(grid, p)

(***************************************************************************)
(* DOM scan -> boxes                                                       *)
(***************************************************************************)
\* defect variant of normalizeZ: no clamp
normalizeZUnclamped(rawZ) == rawZ

normalizeZ(rawZ) == Max(0 - Z_MAX, Min(Z_MAX, rawZ))

\* getBoundingClientRect(): viewport coordinates, px
RectOf(el, sy) ==
  LET top == IF el.position = "fixed" THEN el.top ELSE el.top - sy
  IN  [left |-> el.left, top |-> top, width |-> el.width, height |-> el.height,
       right |-> el.left + el.width, bottom |-> top + el.height]

\* the element passes every `continue` of the scan loop
Eligible(L, el, sy) ==
  LET rect == RectOf(el, sy) IN
  /\ el.tag \notin EXCLUDED_TAGS
  /\ ~StartsWith(el.id, DOM3D_PREFIX)
  /\ ~(el.display = "none" \/ el.visibility = "hidden")
  /\ el.position # "static"
  /\ ~(el.zIndex = AUTO \/ el.zIndex = <<>>)
  /\ ~ParseInt(el.zIndex).nan
  /\ ~(rect.width < MIN_RECT \/ rect.height < MIN_RECT)
  /\ ~(rect.right < 0 - VIEWPORT_MARGIN \/ rect.left > L.vw + VIEWPORT_MARGIN)
  /\ ~(rect.bottom < 0 - VIEWPORT_MARGIN \/ rect.top > L.vh + VIEWPORT_MARGIN)

\* defect variant of ElementZ: without Math.max(0, zIndex)
ElementZSigned(el) == normalizeZ(ParseInt(el.zIndex).val)

\* const z = normalizeZ(Math.max(0, zIndex)), px
ElementZ(el) == normalizeZ(Max(0, ParseInt(el.zIndex).val))

ElementBox(el, sy, id) ==
  LET rect == RectOf(el, sy) IN
  [x |-> rect.left * PX, y |-> rect.top * PX, z |-> ElementZ(el) * PX,
   w |-> rect.width * PX, h |-> rect.height * PX, d |-> BOX_D * PX, id |-> id]

\* defect variant of BaseFloor: the floor made from the window's size
BaseFloorWindow(L, sy, id) ==
  [x |-> 0, y |-> 0, z |-> 0,
   w |-> L.vw * PX, h |-> L.vh * PX, d |-> FLOOR_D * PX, id |-> id]

\* the floor made from documentElement's rectangle
BaseFloor(L, sy, id) ==
  [x |-> 0, y |-> (0 - sy) * PX, z |-> 0,
   w |-> L.docW * PX, h |-> L.docH * PX, d |-> FLOOR_D * PX, id |-> id]

RECURSIVE ScanElements(_, _, _, _)
\* the scan loop from element i on; acc is the box list so far
ScanElements(L, sy, i, acc) ==
  IF i > Len(L.els) THEN acc
  ELSE ScanElements(L, sy, i + 1,
         IF Eligible(L, L.els[i], sy)
         THEN Append(acc, ElementBox(L.els[i], sy, Len(acc) + 1))
         ELSE acc)

\* boxes after scanDOM: the element boxes, then the floor, always last
ScanBoxes(L, sy) ==
  LET elBoxes == ScanElements(L, sy, 1, <<>>)
  IN  Append(elBoxes, BaseFloor(L, sy, Len(elBoxes) + 1))


(***************************************************************************)
(* Transforms.  A transform string is a sequence of functions              *)
(* [f, arg]; '' is the empty sequence.  A computed transform is 'none' or  *)
(* a single matrix, never a list of named functions.                       *)
(***************************************************************************)
TNone == <<[f |-> "none", arg |-> 0]>>
TranslateZ(z) == [f |-> "translateZ", arg |-> z]

RECURSIVE DepthOf(_, _)
\* the z translation a transform list amounts to, from position i on
DepthOf(t, i) ==
  IF i > Len(t) THEN 0
  ELSE (IF t[i].f \in {"translateZ", "matrix3d"} THEN t[i].arg ELSE 0) + DepthOf(t, i + 1)

\* getComputedStyle(el).transform
ComputedTransform(el, inline) ==
  IF inline # <<>> THEN <<[f |-> "matrix3d", arg |-> DepthOf(inline, 1)]>>
  ELSE IF el.cssTransform = "none" THEN TNone
  ELSE <<[f |-> "matrix", arg |-> 0]>>

\* computedTransform.includes('translateZ')
IncludesTranslateZ(t) == \E i \in 1..Len(t) : t[i].f = "translateZ"

\* page-authored inline transforms before the game touches anything
InitialInline ==
  [i \in ElIds \cup ConfettiIds |-> IF i = 4 THEN <<[f |-> "rotate", arg |-> 0]>> ELSE <<>>]

\* the confetti pieces leave the document, and their inline styles with them
RemoveConfetti(inl) == [i \in DOMAIN inl |-> IF i \in ConfettiIds THEN <<>> ELSE inl[i]]

\* defect variant of restoreModifiedElements: the loop ends after one entry
restoreModifiedElementsOnce(inl, mods, i) ==
  IF i > Len(mods) THEN inl
  ELSE [inl EXCEPT ![mods[i].el] = mods[i].originalTransform]

RECURSIVE restoreModifiedElements(_, _, _)
\* el.style.transform = originalTransform for every entry, in order
restoreModifiedElements(inl, mods, i) ==
  IF i > Len(mods) THEN inl
  ELSE restoreModifiedElements([inl EXCEPT ![mods[i].el] = mods[i].originalTransform],
                               mods, i + 1)

\* the transform the scan writes on an eligible element
LiftedTransform(el, inline) ==
  LET computed == ComputedTransform(el, inline)
      z == ElementZ(el)
  IN  IF computed # TNone /\ ~IncludesTranslateZ(computed)
      THEN computed \o <<TranslateZ(z)>>
      ELSE IF computed = TNone THEN <<TranslateZ(z)>>
      ELSE inline

\* the elements of page L scrolled to sy that pass the tests of the scan loop
EligibleIds(L, sy) == {i \in 1..Len(L.els) : Eligible(L, L.els[i], sy)}

RECURSIVE ScanTransforms(_, _, _, _)
\* the scan loop's writes to the page, from element i on; eligible is the
\* set of elements that pass the loop's tests;
\* st = [inl |-> inline transforms, mods |-> modifiedElements]
ScanTransforms(L, eligible, i, st) ==
  IF i > Len(L.els) THEN st
  ELSE ScanTransforms(L, eligible, i + 1,
         IF i \in eligible
         THEN [inl |-> [st.inl EXCEPT ![i] = LiftedTransform(L.els[i], st.inl[i])],
               mods |-> Append(st.mods, [el |-> i, originalTransform |-> st.inl[i]])]
         ELSE st)

(***************************************************************************)
(* Start / goal, jump velocity, spawn                                      *)
(***************************************************************************)
RECURSIVE ReduceLowest(_, _, _)
\* list.reduce((a, b) => a.z < b.z ? a : b), from position i on; acc is a
ReduceLowest(list, acc, i) ==
  IF i > Len(list) THEN acc
  ELSE ReduceLowest(list, IF acc.z < list[i].z THEN acc ELSE list[i], i + 1)

RECURSIVE ReduceHighestSwapped(_, _, _)
\* defect variant of ReduceHighest: the comparison of the Start reduction
ReduceHighestSwapped(list, acc, i) ==
  IF i > Len(list) THEN acc
  ELSE ReduceHighestSwapped(list, IF acc.z < list[i].z THEN acc ELSE list[i], i + 1)

RECURSIVE ReduceHighest(_, _, _)
\* list.reduce((a, b) => a.z > b.z ? a : b), from position i on; acc is a
ReduceHighest(list, acc, i) ==
  IF i > Len(list) THEN acc
  ELSE ReduceHighest(list, IF acc.z > list[i].z THEN acc ELSE list[i], i + 1)

\* pickStartGoal(): [start, goal]; unchanged for an empty list
pickStartGoal(boxList, start, goal) ==
  IF Len(boxList) = 0 THEN [start |-> start, goal |-> goal]
  ELSE [start |-> ReduceLowest(boxList, boxList[1], 2),
        goal |-> ReduceHighest(boxList, boxList[1], 2)]

RECURSIVE CeilSqrtIn(_, _, _)
\* least r in lo..hi with r * r >= n
CeilSqrtIn(n, lo, hi) ==
  IF lo >= hi THEN lo
  ELSE LET mid == (lo + hi) \div 2
       IN  IF mid * mid >= n THEN CeilSqrtIn(n, lo, mid) ELSE CeilSqrtIn(n, mid + 1, hi)

\* Math.sqrt, rounded up to the velocity lattice
CeilSqrt(n) == CeilSqrtIn(n, 0, 46340)

RECURSIVE SortedTops(_)
\* the multiset of numbers ts (a sequence) in ascending order
SortedTops(ts) ==
  IF Len(ts) = 0 THEN <<>>
  ELSE LET m == CHOOSE i \in 1..Len(ts) : \A j \in 1..Len(ts) : ts[i] <= ts[j]
           rest == [k \in 1..(Len(ts) - 1) |-> IF k < m THEN ts[k] ELSE ts[k + 1]]
       IN  <<ts[m]>> \o SortedTops(rest)

RECURSIVE MaxStepFrom(_, _, _)
MaxStepFrom(tops, i, maxStep) ==
  IF i > Len(tops) THEN maxStep
  ELSE MaxStepFrom(tops, i + 1, Max(maxStep, tops[i] - tops[i - 1]))

\* calculateJumpVelocity(): the new jumpVz, in 1/6 px/s
calculateJumpVelocity(boxList) ==
  IF Len(boxList) < 2 THEN MIN_JUMP_VZ * VU
  ELSE LET tops == SortedTops([i \in 1..Len(boxList) |-> boxList[i].z + boxList[i].d])
           maxStepPx == MaxStepFrom(tops, 2, 0) \div PX
           \* (requiredVz * VU)^2 = 2 * GRAVITY * maxStep * JUMP_MARGIN * VU^2
           requiredSq == ((2 * GRAVITY * JUMP_MARGIN_NUM * maxStepPx) \div 10) * VU * VU
       IN  Max(MIN_JUMP_VZ * VU, CeilSqrt(requiredSq))

RECURSIVE MaxTopAt(_, _, _, _)
\* highest top among the boxes under p's footprint, from box i on
MaxTopAt(boxList, p, i, maxTop) ==
  IF i > Len(boxList) THEN maxTop
  ELSE MaxTopAt(boxList, p, i + 1,
         IF overlapX(p, boxList[i]) /\ overlapY(p, boxList[i])
         THEN Max(maxTop, boxList[i].z + boxList[i].d) ELSE maxTop)

\* defect variant of initPlayerPosition: z is the start box's top
initPlayerPositionOnStart(boxList, start, p) ==
  IF Len(boxList) = 0 \/ start = NoBox THEN p
  ELSE IF p.z # 0 \/ p.vz # 0 THEN p
  ELSE [p EXCEPT !.x = start.x + start.w \div 2 - p.w \div 2,
                 !.y = start.y + start.h \div 2 - p.h \div 2,
                 !.z = start.z + start.d]

\* initPlayerPosition(): the player afterwards
initPlayerPosition(boxList, start, p) ==
  IF Len(boxList) = 0 \/ start = NoBox THEN p
  ELSE IF p.z # 0 \/ p.vz # 0 THEN p
  ELSE LET q == [p EXCEPT !.x = start.x + start.w \div 2 - p.w \div 2,
                          !.y = start.y + start.h \div 2 - p.h \div 2]
       IN  [q EXCEPT !.z = MaxTopAt(boxList, q, 1, start.z + start.d)]


(***************************************************************************)
(* Physics: axis separated AABB resolution.  A physics state is            *)
(* [p |-> player, grounded |-> isGrounded, groundZ |-> groundZ].           *)
(***************************************************************************)
BoxTop(box) == box.z + box.d

\* defect variant of AfterInput: h and k are tested after l and j
AfterInputLeftWins(st, ks, jq, jv, dt) ==
  LET vx == IF ks.h THEN 0 - MOVE_SPEED * VU ELSE IF ks.l THEN MOVE_SPEED * VU ELSE 0
      vy == IF ks.k THEN 0 - MOVE_SPEED * VU ELSE IF ks.j THEN MOVE_SPEED * VU ELSE 0
      jump == jq /\ st.grounded
      vz == (IF jump THEN jv ELSE st.p.vz) - (GRAVITY * VU * dt) \div TicksPerSecond
  IN  [st EXCEPT !.p.vx = vx, !.p.vy = vy, !.p.vz = vz,
                 !.grounded = IF jump THEN FALSE ELSE st.grounded]

\* 1) input -> velocity, jump when grounded, 2) gravity
AfterInput(st, ks, jq, jv, dt) ==
  LET vx == IF ks.l THEN MOVE_SPEED * VU ELSE IF ks.h THEN 0 - MOVE_SPEED * VU ELSE 0
      vy == IF ks.j THEN MOVE_SPEED * VU ELSE IF ks.k THEN 0 - MOVE_SPEED * VU ELSE 0
      jump == jq /\ st.grounded
      vz == (IF jump THEN jv ELSE st.p.vz) - (GRAVITY * VU * dt) \div TicksPerSecond
  IN  [st EXCEPT !.p.vx = vx, !.p.vy = vy, !.p.vz = vz,
                 !.grounded = IF jump THEN FALSE ELSE st.grounded]

\* the step-up branch of the X and Y loops
StepUp(st, box) ==
  [st EXCEPT !.p.z = BoxTop(box), !.p.vz = 0, !.grounded = TRUE, !.groundZ = BoxTop(box)]

\* defect variant of IsStep: a step of exactly STEP_HEIGHT is not climbed
IsStepBelow(st, box) ==
  LET stepHeight == BoxTop(box) - st.p.z
  IN  stepHeight > 0 /\ stepHeight < STEP_HEIGHT * PX

IsStep(st, box) ==
  LET stepHeight == BoxTop(box) - st.p.z
  IN  stepHeight > 0 /\ stepHeight <= STEP_HEIGHT * PX

\* body of the X loop for one box
ResolveXBox(st, box) ==
  IF overlapY(st.p, box) /\ overlapZ(st.p, box) /\ overlapX(st.p, box)
  THEN IF IsStep(st, box) THEN StepUp(st, box)
       ELSE LET penLeft == (st.p.x + st.p.w) - box.x
                penRight == (box.x + box.w) - st.p.x
            IN  [st EXCEPT !.p.x = IF penLeft < penRight THEN box.x - st.p.w
                                   ELSE box.x + box.w,
                           !.p.vx = 0]
  ELSE st

\* body of the Y loop for one box
ResolveYBox(st, box) ==
  IF overlapX(st.p, box) /\ overlapZ(st.p, box) /\ overlapY(st.p, box)
  THEN IF IsStep(st, box) THEN StepUp(st, box)
       ELSE LET penTop == (st.p.y + st.p.h) - box.y
                penBottom == (box.y + box.h) - st.p.y
            IN  [st EXCEPT !.p.y = IF penTop < penBottom THEN box.y - st.p.h
                                   ELSE box.y + box.h,
                           !.p.vy = 0]
  ELSE st

\* defect variant of ResolveZBox: landing keeps the fall velocity
ResolveZBoxKeepVz(st, box) ==
  IF overlapX(st.p, box) /\ overlapY(st.p, box) /\ overlapZ(st.p, box)
  THEN LET penFront == (st.p.z + st.p.d) - box.z
           penBack == BoxTop(box) - st.p.z
       IN  IF penFront < penBack
           THEN [st EXCEPT !.p.z = box.z - st.p.d, !.p.vz = 0]
           ELSE [st EXCEPT !.p.z = BoxTop(box),
                           !.grounded = TRUE, !.groundZ = BoxTop(box)]
  ELSE st

\* body of the Z loop for one box
ResolveZBox(st, box) ==
  IF overlapX(st.p, box) /\ overlapY(st.p, box) /\ overlapZ(st.p, box)
  THEN LET penFront == (st.p.z + st.p.d) - box.z
           penBack == BoxTop(box) - st.p.z
       IN  IF penFront < penBack
           THEN [st EXCEPT !.p.z = box.z - st.p.d, !.p.vz = 0]
           ELSE [st EXCEPT !.p.z = BoxTop(box), !.p.vz = 0,
                           !.grounded = TRUE, !.groundZ = BoxTop(box)]
  ELSE st

\* body of the groundZ loop for one box; st.groundZ plays bestGroundZ
GroundBox(st, box) ==
  IF /\ overlapX(st.p, box) /\ overlapY(st.p, box)
     /\ BoxTop(box) <= st.p.z + PX
     /\ BoxTop(box) > st.groundZ
  THEN [st EXCEPT !.groundZ = BoxTop(box)]
  ELSE st

\* The four loops over nearby, from position i on.  The body's result is
\* computed (next.p = next.p) before the loop goes on.
RECURSIVE ResolveX(_, _, _)
ResolveX(st, nearby, i) ==
  IF i > Len(nearby) THEN st
  ELSE LET next == ResolveXBox(st, nearby[i])
       IN  IF next.p = next.p THEN ResolveX(next, nearby, i + 1) ELSE next

RECURSIVE ResolveY(_, _, _)
ResolveY(st, nearby, i) ==
  IF i > Len(nearby) THEN st
  ELSE LET next == ResolveYBox(st, nearby[i])
       IN  IF next.p = next.p THEN ResolveY(next, nearby, i + 1) ELSE next

RECURSIVE ResolveZSkipLast(_, _, _)
\* defect variant of ResolveZ: the loop stops before the last box of nearby
ResolveZSkipLast(st, nearby, i) ==
  IF i >= Len(nearby) THEN st
  ELSE LET next == ResolveZBox(st, nearby[i])
       IN  IF next.p = next.p THEN ResolveZSkipLast(next, nearby, i + 1) ELSE next

RECURSIVE ResolveZ(_, _, _)
ResolveZ(st, nearby, i) ==
  IF i > Len(nearby) THEN st
  ELSE LET next == ResolveZBox(st, nearby[i])
       IN  IF next.p = next.p THEN ResolveZ(next, nearby, i + 1) ELSE next

RECURSIVE BestGround(_, _, _)
BestGround(st, nearby, i) ==
  IF i > Len(nearby) THEN st
  ELSE LET next == GroundBox(st, nearby[i])
       IN  IF next.p = next.p THEN BestGround(next, nearby, i + 1) ELSE next

\* 4) move X, resolve X
AfterX(st, nearby, dt) ==
  ResolveX([st EXCEPT !.p.x = st.p.x + st.p.vx * dt], nearby, 1)

\* 5) move Y, resolve Y
AfterY(st, nearby, dt) ==
  ResolveY([st EXCEPT !.p.y = st.p.y + st.p.vy * dt], nearby, 1)

\* defect variant of MovedZ: a virtual floor at groundZ
MovedZClamped(st, dt) ==
  [st EXCEPT !.p.z = Max(st.groundZ, st.p.z + st.p.vz * dt), !.grounded = FALSE]

\* the player moved in Z, before the Z loop
MovedZ(st, dt) == [st EXCEPT !.p.z = st.p.z + st.p.vz * dt, !.grounded = FALSE]

\* 6) move Z, resolve Z
AfterZ(st, nearby, dt) == ResolveZ(MovedZ(st, dt), nearby, 1)

\* 7) groundZ = highest box top at or below the feet, 0 without one
AfterGround(st, nearby) == BestGround([st EXCEPT !.groundZ = 0], nearby, 1)

\* the state before the Z move: input, gravity, X and Y done
BeforeZ(near, st, ks, jq, jv, dt) ==
  LET movedX == AfterX(AfterInput(st, ks, jq, jv, dt), near, dt)
  IN  AfterY(movedX, near, dt)

\* physics(dt); nearby is queried once, before anything moves
physics(g, st, ks, jq, jv, dt) ==
  LET near == queryNearbyIn(g, st.p)
      moved == AfterZ(BeforeZ(near, st, ks, jq, jv, dt), near, dt)
  IN  AfterGround(moved, near)


(***************************************************************************)
(* Goal check                                                              *)
(***************************************************************************)
\* tolerances of checkGoal: goalTop - 5 and goalTop + 50
GOAL_BELOW == 5
GOAL_ABOVE == 50

\* defect variant of checkGoal: no upper end of the tolerance band
checkGoalAnyHeight(reached, goal, p) ==
  IF reached \/ goal = NoBox THEN reached
  ELSE /\ overlapX(p, goal) /\ overlapY(p, goal)
       /\ p.z >= BoxTop(goal) - GOAL_BELOW * PX

\* checkGoal(): the new goalReached
checkGoal(reached, goal, p) ==
  IF reached \/ goal = NoBox THEN reached
  ELSE /\ overlapX(p, goal) /\ overlapY(p, goal)
       /\ p.z >= BoxTop(goal) - GOAL_BELOW * PX
       /\ p.z <= BoxTop(goal) + GOAL_ABOVE * PX

(***************************************************************************)
(* Actions                                                                 *)
(***************************************************************************)
InitialPlayer ==
  [x |-> 100 * PX, y |-> 100 * PX, z |-> 0,
   w |-> PLAYER_SIZE * PX, h |-> PLAYER_SIZE * PX, d |-> PLAYER_DEPTH * PX,
   vx |-> 0, vy |-> 0, vz |-> 0]

NoKeys == [h |-> FALSE, j |-> FALSE, k |-> FALSE, l |-> FALSE, space |-> FALSE]

\* the transform-style the page gave its body, and the one init() sets
PageBodyStyle == "flat"
Preserve3d == "preserve-3d"

Init ==
  /\ layout \in 1..Len(Layouts)
  /\ scrollY = 0
  /\ inlineTransform = InitialInline
  /\ modifiedElements = <<>>
  /\ boxes = <<>>
  /\ grid = <<>>
  /\ startBox = NoBox
  /\ goalBox = NoBox
  /\ player = InitialPlayer
  /\ keys = NoKeys
  /\ jumpQueued = FALSE
  /\ isGrounded = FALSE
  /\ groundZ = 0
  /\ jumpVz = MIN_JUMP_VZ * VU
  /\ goalReached = FALSE
  /\ celebrationEl = FALSE
  /\ confetti = FALSE
  /\ running = FALSE
  /\ rafId = FALSE
  /\ scanTimerId = FALSE
  /\ inputListeners = FALSE
  /\ scrollListeners = FALSE
  /\ restartListener = FALSE
  /\ messageListener = FALSE
  /\ bodyTransformStyle = PageBodyStyle
  /\ originalBodyTransformStyle = ""
  /\ lastTime = 0
  /\ frames = 0
  /\ keyEvents = 0
  /\ pageChanges = 0
  /\ jumpsThisPress = 0
  /\ tabStates = <<>>
  /\ badgeText = ""
  /\ toggleCalls = <<>>
  /\ toggleCount = 0

\* what a scan of layout l scrolled to sy measures, with or without the
\* confetti in the document: the eligible elements, the boxes and their
\* grid (a table of EligibleIds, ScanBoxes and buildGrid over the pages of
\* the model)
Scanned ==
  [l \in 1..Len(Layouts), sy \in ScrollOffsets, c \in BOOLEAN |->
     LET bs == ScanBoxes(Document(l, c), sy)
     IN  [eligible |-> EligibleIds(Document(l, c), sy), boxes |-> bs,
          grid |-> buildGrid(bs)]]

\* defect variant of scanDOM: a scan without player initialization puts
\* the player back onto Start
scanDOMRespawn(l, sy, initPlayer) ==
  LET restored == restoreModifiedElements(inlineTransform, modifiedElements, 1)
      page == ScanTransforms(Document(l, confetti),
                             Scanned[l, sy, confetti].eligible, 1,
                             [inl |-> restored, mods |-> <<>>])
      newBoxes == Scanned[l, sy, confetti].boxes
      sg == pickStartGoal(newBoxes, startBox, goalBox)
  IN  /\ boxes' = newBoxes
      /\ grid' = Scanned[l, sy, confetti].grid
      /\ inlineTransform' = page.inl
      /\ modifiedElements' = page.mods
      /\ IF initPlayer
         THEN /\ startBox' = sg.start
              /\ goalBox' = sg.goal
              /\ jumpVz' = calculateJumpVelocity(newBoxes)
              /\ player' = initPlayerPosition(newBoxes, sg.start, player)
         ELSE /\ UNCHANGED <<startBox, goalBox, jumpVz>>
              /\ player' = initPlayerPosition(newBoxes, startBox, InitialPlayer)

\* scanDOM(initPlayer) on page l scrolled to sy: restore, scan, floor, grid,
\* and with initPlayer start/goal, jump velocity and spawn
scanDOM(l, sy, initPlayer) ==
  LET restored == restoreModifiedElements(inlineTransform, modifiedElements, 1)
      page == ScanTransforms(Document(l, confetti),
                             Scanned[l, sy, confetti].eligible, 1,
                             [inl |-> restored, mods |-> <<>>])
      newBoxes == Scanned[l, sy, confetti].boxes
      sg == pickStartGoal(newBoxes, startBox, goalBox)
  IN  /\ boxes' = newBoxes
      /\ grid' = Scanned[l, sy, confetti].grid
      /\ inlineTransform' = page.inl
      /\ modifiedElements' = page.mods
      /\ IF initPlayer
         THEN /\ startBox' = sg.start
              /\ goalBox' = sg.goal
              /\ jumpVz' = calculateJumpVelocity(newBoxes)
              /\ player' = initPlayerPosition(newBoxes, sg.start, player)
         ELSE UNCHANGED <<startBox, goalBox, jumpVz, player>>

\* showCelebration(): [el, listener, confetti]; nothing when the panel is
\* shown already
showCelebration(el, listener, pieces) ==
  IF el THEN [el |-> el, listener |-> listener, confetti |-> pieces]
  ELSE [el |-> TRUE, listener |-> TRUE, confetti |-> TRUE]

\* render(), as far as it changes the state: checkGoal() against goal with
\* the player at p, and showCelebration() when the goal is reached by it
render(goal, p) ==
  LET reached == checkGoal(goalReached, goal, p)
      shown == IF reached /\ ~goalReached
               THEN showCelebration(celebrationEl, restartListener, confetti)
               ELSE [el |-> celebrationEl, listener |-> restartListener,
                     confetti |-> confetti]
  IN  /\ goalReached' = reached
      /\ celebrationEl' = shown.el
      /\ confetti' = shown.confetti
      /\ restartListener' = shown.listener

\* init() on new module state (the one cleanup() left, and no key held):
\* body style, scanDOM(true), createPlayer (which renders once), listeners,
\* scan interval, first frame request
init ==
  /\ ~running
  /\ running' = TRUE
  /\ lastTime' = 0
  /\ keys' = NoKeys
  /\ originalBodyTransformStyle' = bodyTransformStyle
  /\ bodyTransformStyle' = Preserve3d
  /\ rafId' = TRUE
  /\ scanTimerId' = TRUE
  /\ inputListeners' = TRUE
  /\ scrollListeners' = TRUE
  /\ messageListener' = TRUE
  /\ UNCHANGED <<layout, scrollY, jumpQueued, isGrounded, groundZ,
                 frames, keyEvents, pageChanges, jumpsThisPress>>
  /\ scanDOM(layout, scrollY, TRUE)
  /\ render(goalBox', player')

\* the content script is injected into a page without a running game
StartGame ==
  /\ init
  /\ UNCHANGED background

\* defect variant of Frame: dt is the whole time since the last frame
FrameUnclamped(gap, maxFrames) ==
  /\ rafId
  /\ running
  /\ frames < maxFrames
  /\ LET dt == gap
         st == [p |-> player, grounded |-> isGrounded, groundZ |-> groundZ]
         res == physics(grid, st, keys, jumpQueued, jumpVz, dt)
     IN  /\ player' = res.p
         /\ isGrounded' = res.grounded
         /\ groundZ' = res.groundZ
         /\ render(goalBox, res.p)
  /\ jumpQueued' = FALSE
  /\ lastTime' = lastTime + gap
  /\ frames' = frames + 1
  /\ jumpsThisPress' = IF jumpQueued /\ isGrounded THEN jumpsThisPress + 1
                       ELSE jumpsThisPress
  /\ UNCHANGED <<layout, scrollY, inlineTransform, modifiedElements, boxes, grid,
                 startBox, goalBox, keys, jumpVz, running, keyEvents, pageChanges>>
  /\ UNCHANGED <<callbacks, bodyStyle, background>>

\* loop(currentTime), currentTime = lastTime + gap: physics(dt), render(),
\* next frame request
Frame(gap, maxFrames) ==
  /\ rafId
  /\ running
  /\ frames < maxFrames
  /\ LET dt == Min(gap, MaxDt)
         st == [p |-> player, grounded |-> isGrounded, groundZ |-> groundZ]
         res == physics(grid, st, keys, jumpQueued, jumpVz, dt)
     IN  /\ player' = res.p
         /\ isGrounded' = res.grounded
         /\ groundZ' = res.groundZ
         /\ render(goalBox, res.p)
  /\ jumpQueued' = FALSE
  /\ lastTime' = lastTime + gap
  /\ frames' = frames + 1
  /\ jumpsThisPress' = IF jumpQueued /\ isGrounded THEN jumpsThisPress + 1
                       ELSE jumpsThisPress
  /\ UNCHANGED <<layout, scrollY, inlineTransform, modifiedElements, boxes, grid,
                 startBox, goalBox, keys, jumpVz, running, keyEvents, pageChanges>>
  /\ UNCHANGED <<callbacks, bodyStyle, background>>

\* the setInterval callback: scanDOM(false)
ScanTimer ==
  /\ scanTimerId
  /\ UNCHANGED <<layout, scrollY, keys, jumpQueued, isGrounded, groundZ,
                 goalReached, running, lastTime, frames, keyEvents, pageChanges,
                 jumpsThisPress>>
  /\ UNCHANGED <<callbacks, celebration, bodyStyle, background>>
  /\ scanDOM(layout, scrollY, FALSE)

\* onScrollResize after the window scrolled to sy (sy = scrollY: a resize)
ScrollResize(sy) ==
  /\ scrollListeners
  /\ scrollY' = sy
  /\ UNCHANGED <<layout, keys, jumpQueued, isGrounded, groundZ,
                 goalReached, running, lastTime, frames, keyEvents, pageChanges,
                 jumpsThisPress>>
  /\ UNCHANGED <<callbacks, celebration, bodyStyle, background>>
  /\ scanDOM(layout, sy, FALSE)

\* the page changes its own elements; no handler of the game runs
PageChange(l, maxPageChanges) ==
  /\ running
  /\ pageChanges < maxPageChanges
  /\ l # layout
  /\ layout' = l
  /\ pageChanges' = pageChanges + 1
  /\ UNCHANGED <<scrollY, inlineTransform, modifiedElements, boxes, grid,
                 startBox, goalBox, player, keys, jumpQueued, isGrounded, groundZ,
                 jumpVz, goalReached, running, lastTime, frames, keyEvents,
                 jumpsThisPress>>
  /\ UNCHANGED <<callbacks, celebration, bodyStyle, background>>

KeyNames == {"h", "j", "k", "l", "space"}

\* onKeyDown(e); inInput: e.target is an input element.  A key that is
\* held down repeats, so a keydown may arrive for a key already down.
\* keyEvents counts the key events that change the input state.
KeyDown(key, inInput, maxKeyEvents) ==
  /\ inputListeners
  /\ keyEvents < maxKeyEvents
  /\ IF inInput
     THEN UNCHANGED <<keys, jumpQueued, jumpsThisPress>>
     ELSE /\ keys' = [keys EXCEPT ![key] = TRUE]
          /\ jumpQueued' = IF key = "space" THEN TRUE ELSE jumpQueued
          /\ jumpsThisPress' = IF key = "space" /\ ~keys.space THEN 0
                               ELSE jumpsThisPress
  /\ keyEvents' = IF keys' # keys \/ jumpQueued' # jumpQueued THEN keyEvents + 1
                  ELSE keyEvents
  /\ UNCHANGED <<layout, scrollY, inlineTransform, modifiedElements, boxes, grid,
                 startBox, goalBox, player, isGrounded, groundZ, jumpVz,
                 goalReached, running, lastTime, frames, pageChanges>>
  /\ UNCHANGED <<callbacks, celebration, bodyStyle, background>>

\* onKeyUp(e)
KeyUp(key, maxKeyEvents) ==
  /\ inputListeners
  /\ keyEvents < maxKeyEvents
  /\ keys' = [keys EXCEPT ![key] = FALSE]
  /\ keyEvents' = IF keys' # keys THEN keyEvents + 1 ELSE keyEvents
  /\ UNCHANGED <<layout, scrollY, inlineTransform, modifiedElements, boxes, grid,
                 startBox, goalBox, player, jumpQueued, isGrounded, groundZ, jumpVz,
                 goalReached, running, lastTime, frames, pageChanges, jumpsThisPress>>
  /\ UNCHANGED <<callbacks, celebration, bodyStyle, background>>

\* restartGame(): the player at p goes back onto start
restartGame(start, p) ==
  IF start = NoBox THEN p
  ELSE [p EXCEPT !.x = start.x + start.w \div 2 - p.w \div 2,
                 !.y = start.y + start.h \div 2 - p.h \div 2,
                 !.z = start.z + start.d,
                 !.vx = 0, !.vy = 0, !.vz = 0]

\* onRestartKey(e) for the key r: restartGame(); the celebration and the
\* confetti go away
RestartKey(maxKeyEvents) ==
  /\ restartListener
  /\ keyEvents < maxKeyEvents
  /\ keyEvents' = keyEvents + 1
  /\ celebrationEl' = FALSE
  /\ confetti' = FALSE
  /\ restartListener' = FALSE
  /\ goalReached' = FALSE
  /\ player' = restartGame(startBox, player)
  /\ inlineTransform' = RemoveConfetti(inlineTransform)
  /\ UNCHANGED <<layout, scrollY, modifiedElements, boxes, grid,
                 startBox, goalBox, keys, jumpQueued, isGrounded, groundZ, jumpVz,
                 running, lastTime, frames, pageChanges, jumpsThisPress>>
  /\ UNCHANGED <<callbacks, bodyStyle, background>>

\* defect variant of Cleanup: the scan interval is not cleared
CleanupKeepsInterval ==
  /\ messageListener
  /\ running' = FALSE
  /\ rafId' = FALSE
  /\ scanTimerId' = scanTimerId
  /\ inputListeners' = FALSE
  /\ scrollListeners' = FALSE
  /\ bodyTransformStyle' = originalBodyTransformStyle
  /\ inlineTransform' =
       RemoveConfetti(restoreModifiedElements(inlineTransform, modifiedElements, 1))
  /\ modifiedElements' = <<>>
  /\ celebrationEl' = FALSE
  /\ confetti' = FALSE
  /\ restartListener' = FALSE
  /\ boxes' = <<>>
  /\ grid' = <<>>
  /\ startBox' = NoBox
  /\ goalBox' = NoBox
  /\ player' = InitialPlayer
  /\ jumpQueued' = FALSE
  /\ isGrounded' = FALSE
  /\ groundZ' = 0
  /\ jumpVz' = MIN_JUMP_VZ * VU
  /\ goalReached' = FALSE
  /\ lastTime' = 0
  /\ UNCHANGED <<layout, scrollY, keys, messageListener, originalBodyTransformStyle,
                 frames, keyEvents, pageChanges, jumpsThisPress>>
  /\ UNCHANGED background

\* cleanup(): what it does to the page and to the script's state
cleanup ==
  /\ running' = FALSE
  /\ rafId' = FALSE
  /\ scanTimerId' = FALSE
  /\ inputListeners' = FALSE
  /\ scrollListeners' = FALSE
  /\ bodyTransformStyle' = originalBodyTransformStyle
  /\ inlineTransform' =
       RemoveConfetti(restoreModifiedElements(inlineTransform, modifiedElements, 1))
  /\ modifiedElements' = <<>>
  /\ celebrationEl' = FALSE
  /\ confetti' = FALSE
  /\ restartListener' = FALSE
  /\ boxes' = <<>>
  /\ grid' = <<>>
  /\ startBox' = NoBox
  /\ goalBox' = NoBox
  /\ player' = InitialPlayer
  /\ jumpQueued' = FALSE
  /\ isGrounded' = FALSE
  /\ groundZ' = 0
  /\ jumpVz' = MIN_JUMP_VZ * VU
  /\ goalReached' = FALSE
  /\ lastTime' = 0
  /\ UNCHANGED <<layout, scrollY, keys, messageListener, originalBodyTransformStyle,
                 frames, keyEvents, pageChanges, jumpsThisPress>>

\* cleanup(), run by the message listener
Cleanup ==
  /\ messageListener
  /\ cleanup
  /\ UNCHANGED background

\* a session on a page that changes and scrolls under the game
Next ==
  \/ StartGame
  \/ \E gap \in FrameGaps : Frame(gap, MaxWorldEvents - keyEvents - pageChanges)
  \/ ScanTimer
  \/ \E sy \in ScrollOffsets : ScrollResize(sy)
  \/ \E l \in 1..Len(Layouts) : PageChange(l, MaxWorldEvents - frames - keyEvents)
  \/ \E key \in KeyNames, inInput \in BOOLEAN :
       KeyDown(key, inInput, MaxWorldEvents - frames - pageChanges)
  \/ \E key \in KeyNames : KeyUp(key, MaxWorldEvents - frames - pageChanges)

Spec == Init /\ [][Next]_vars

\* a session on a page that stays as it is: the world is static
NextStatic(maxFrames, maxKeyEvents) ==
  \/ StartGame
  \/ \E gap \in FrameGaps : Frame(gap, maxFrames)
  \/ ScanTimer
  \/ \E key \in KeyNames, inInput \in BOOLEAN : KeyDown(key, inInput, maxKeyEvents)
  \/ \E key \in KeyNames : KeyUp(key, maxKeyEvents)

SpecStatic == Init /\ [][NextStatic(MaxFrames, MaxKeyEvents)]_vars
SpecFall == Init /\ [][NextStatic(MaxFallFrames, MaxFallKeyEvents)]_vars
SpecJump == Init /\ [][NextStatic(MaxJumpFrames, MaxJumpKeyEvents)]_vars

\* a game that is started and left alone: frames and no input
NextRest ==
  \/ StartGame
  \/ \E gap \in FrameGaps : Frame(gap, MaxRestFrames)

SpecRest == Init /\ [][NextRest]_vars

\* games started, played to the goal, restarted and torn down, one after
\* another, on a page that scrolls; frames and key events share one budget
NextSession ==
  \/ StartGame
  \/ \E gap \in FrameGaps : Frame(gap, MaxSessionEvents - keyEvents)
  \/ ScanTimer
  \/ \E sy \in ScrollOffsets : ScrollResize(sy)
  \/ \E key \in KeyNames, inInput \in BOOLEAN :
       KeyDown(key, inInput, MaxSessionEvents - frames)
  \/ \E key \in KeyNames : KeyUp(key, MaxSessionEvents - frames)
  \/ RestartKey(MaxSessionEvents - frames)
  \/ Cleanup

SpecSession == Init /\ [][NextSession]_vars

\* the goal predicate on its own: a running game on page l whose player is
\* at an offset (dx, dy, dz) from the corner of the Goal's top
GoalProbe(l, dx, dy, dz) ==
  LET scan == Scanned[l, 0, FALSE]
      sg == pickStartGoal(scan.boxes, NoBox, NoBox)
      page == ScanTransforms(Layouts[l], scan.eligible, 1,
                             [inl |-> InitialInline, mods |-> <<>>])
  IN  /\ layout = l
      /\ scrollY = 0
      /\ inlineTransform = page.inl
      /\ modifiedElements = page.mods
      /\ boxes = scan.boxes
      /\ grid = scan.grid
      /\ startBox = sg.start
      /\ goalBox = sg.goal
      /\ player = [InitialPlayer EXCEPT !.x = sg.goal.x + dx * PX,
                                        !.y = sg.goal.y + dy * PX,
                                        !.z = BoxTop(sg.goal) + dz * PX]
      /\ jumpVz = calculateJumpVelocity(scan.boxes)

\* offsets around the edges of the Goal's footprint and of the tolerance band
GoalProbeDxs == {-21, -20, -19, 29, 30}
GoalProbeDys == {-20, -19}
GoalProbeDzs == {-6, -5, -1, 0, 50, 51}

InitGoal ==
  /\ \E l \in 1..Len(Layouts), dx \in GoalProbeDxs, dy \in GoalProbeDys, dz \in GoalProbeDzs :
       GoalProbe(l, dx, dy, dz)
  /\ keys = NoKeys
  /\ jumpQueued = FALSE
  /\ isGrounded = FALSE
  /\ groundZ = 0
  /\ goalReached = FALSE
  /\ celebrationEl = FALSE
  /\ confetti = FALSE
  /\ running = TRUE
  /\ rafId = TRUE
  /\ scanTimerId = TRUE
  /\ inputListeners = TRUE
  /\ scrollListeners = TRUE
  /\ restartListener = FALSE
  /\ messageListener = TRUE
  /\ bodyTransformStyle = Preserve3d
  /\ originalBodyTransformStyle = PageBodyStyle
  /\ lastTime = 0
  /\ frames = 0
  /\ keyEvents = 0
  /\ pageChanges = 0
  /\ jumpsThisPress = 0
  /\ tabStates = <<>>
  /\ badgeText = ""
  /\ toggleCalls = <<>>
  /\ toggleCount = 0

\* render() alone
Render ==
  /\ running
  /\ render(goalBox, player)
  /\ UNCHANGED <<layout, scrollY, inlineTransform, modifiedElements, boxes, grid,
                 startBox, goalBox, player, keys, jumpQueued, isGrounded, groundZ,
                 jumpVz, running, lastTime, frames, keyEvents, pageChanges,
                 jumpsThisPress>>
  /\ UNCHANGED <<callbacks, bodyStyle, background>>

\* around the Goal: the predicate, and what follows a report of the goal
NextGoal ==
  \/ Render
  \/ ScanTimer
  \/ \E gap \in FrameGaps : Frame(gap, MaxGoalFrames)
  \/ \E key \in KeyNames, inInput \in BOOLEAN : KeyDown(key, inInput, MaxGoalKeyEvents)

SpecGoal == InitGoal /\ [][NextGoal]_vars

\* the player near the Goal: frames, and the key r once the celebration shows
NextRestart ==
  \/ \E gap \in FrameGaps : Frame(gap, MaxRestartFrames)
  \/ RestartKey(MaxRestartKeyEvents)

SpecRestart == InitGoal /\ [][NextRestart]_vars

\* worlds of one platform at the page's origin above the ground: its
\* width, its height above the ground and its thickness (as given, z = 100
\* and d = 10, or as the scan makes a box of top 110: z = 30 and d = BOX_D),
\* with or without a wall to its left that reaches above the player
PlatformWidths == {50, 120, 200}
PlatformShapes == {[z |-> 100, d |-> 10], [z |-> 30, d |-> BOX_D]}
PLATFORM_TOP == 100 + 10

PlatformBox(w, shape) ==
  [x |-> 0, y |-> 0, z |-> shape.z * PX, w |-> w * PX, h |-> 50 * PX,
   d |-> shape.d * PX, id |-> 1]

WallBox == [x |-> (0 - 30) * PX, y |-> 0, z |-> 100 * PX, w |-> 30 * PX, h |-> 50 * PX,
            d |-> 100 * PX, id |-> 2]

\* the box list: the platform, the wall if there is one, the ground last
PlatformWorld(w, shape, wall) ==
  IF wall
  THEN <<PlatformBox(w, shape), WallBox, BaseFloor(LayoutEmpty, 0, 3)>>
  ELSE <<PlatformBox(w, shape), BaseFloor(LayoutEmpty, 0, 2)>>

\* a running game in a platform world, the player spawned on the platform
\* and the key h held
InitPlatform ==
  /\ \E w \in PlatformWidths, shape \in PlatformShapes, wall \in BOOLEAN :
       LET world == PlatformWorld(w, shape, wall) IN
       /\ boxes = world
       /\ grid = buildGrid(world)
       /\ startBox = world[1]
       /\ goalBox = pickStartGoal(world, NoBox, NoBox).goal
       /\ player = initPlayerPosition(world, world[1], InitialPlayer)
       /\ jumpVz = calculateJumpVelocity(world)
  /\ layout = 3
  /\ scrollY = 0
  /\ inlineTransform = InitialInline
  /\ modifiedElements = <<>>
  /\ keys = [NoKeys EXCEPT !.h = TRUE]
  /\ jumpQueued = FALSE
  /\ isGrounded = FALSE
  /\ groundZ = 0
  /\ goalReached = FALSE
  /\ celebrationEl = FALSE
  /\ confetti = FALSE
  /\ running = TRUE
  /\ rafId = TRUE
  /\ scanTimerId = TRUE
  /\ inputListeners = TRUE
  /\ scrollListeners = TRUE
  /\ restartListener = FALSE
  /\ messageListener = TRUE
  /\ bodyTransformStyle = Preserve3d
  /\ originalBodyTransformStyle = PageBodyStyle
  /\ lastTime = 0
  /\ frames = 0
  /\ keyEvents = 0
  /\ pageChanges = 0
  /\ jumpsThisPress = 0
  /\ tabStates = <<>>
  /\ badgeText = ""
  /\ toggleCalls = <<>>
  /\ toggleCount = 0

\* frames 1/60 s apart
NextPlatform == Frame(SixtiethGap, MaxPlatformFrames)

SpecPlatform == InitPlatform /\ [][NextPlatform]_vars

\* worlds of a platform 200 px wide (top at 110), a box above its left
\* 80 px whose underside is 10 or 30 px above the head of a player on
\* the platform, with or without a box at Z_MAX far to the right (which
\* makes the jump velocity high), and the ground; all as the scan makes
\* them, BOX_D thick
CeilingZs == {140, 160}

CeilingBox(z) ==
  [x |-> 0, y |-> 0, z |-> z * PX, w |-> 80 * PX, h |-> 50 * PX, d |-> BOX_D * PX, id |-> 2]

TowerBox ==
  [x |-> 400 * PX, y |-> 0, z |-> Z_MAX * PX, w |-> 50 * PX, h |-> 50 * PX,
   d |-> BOX_D * PX, id |-> 3]

CeilingWorld(z, tower) ==
  LET platform == PlatformBox(200, [z |-> 30, d |-> BOX_D])
  IN  IF tower
      THEN <<platform, CeilingBox(z), TowerBox, BaseFloor(LayoutEmpty, 0, 4)>>
      ELSE <<platform, CeilingBox(z), BaseFloor(LayoutEmpty, 0, 3)>>

\* a running game in such a world, the player spawned on the platform
\* beside the box above, and the key h held
InitCeiling ==
  /\ \E z \in CeilingZs, tower \in BOOLEAN :
       LET world == CeilingWorld(z, tower) IN
       /\ boxes = world
       /\ grid = buildGrid(world)
       /\ startBox = world[1]
       /\ goalBox = pickStartGoal(world, NoBox, NoBox).goal
       /\ player = initPlayerPosition(world, world[1], InitialPlayer)
       /\ jumpVz = calculateJumpVelocity(world)
  /\ layout = 3
  /\ scrollY = 0
  /\ inlineTransform = InitialInline
  /\ modifiedElements = <<>>
  /\ keys = [NoKeys EXCEPT !.h = TRUE]
  /\ jumpQueued = FALSE
  /\ isGrounded = FALSE
  /\ groundZ = 0
  /\ goalReached = FALSE
  /\ celebrationEl = FALSE
  /\ confetti = FALSE
  /\ running = TRUE
  /\ rafId = TRUE
  /\ scanTimerId = TRUE
  /\ inputListeners = TRUE
  /\ scrollListeners = TRUE
  /\ restartListener = FALSE
  /\ messageListener = TRUE
  /\ bodyTransformStyle = Preserve3d
  /\ originalBodyTransformStyle = PageBodyStyle
  /\ lastTime = 0
  /\ frames = 0
  /\ keyEvents = 0
  /\ pageChanges = 0
  /\ jumpsThisPress = 0
  /\ tabStates = <<>>
  /\ badgeText = ""
  /\ toggleCalls = <<>>
  /\ toggleCount = 0

\* the player walks under the box and jumps
NextCeiling ==
  \/ \E gap \in FrameGaps : Frame(gap, MaxCeilingFrames)
  \/ KeyDown("space", FALSE, MaxCeilingKeyEvents)

SpecCeiling == InitCeiling /\ [][NextCeiling]_vars

\* a world of boxes that overlap each other: a lower box (top at 110), over
\* the same footprint a box whose underside is 10 px above that top
\* (z = 120..200), in this order, beside them a narrow box with its top at
\* 840, and the ground; all BOX_D thick
LowerBox ==
  [x |-> (0 - 500) * PX, y |-> 0, z |-> 30 * PX, w |-> 500 * PX, h |-> 50 * PX,
   d |-> BOX_D * PX, id |-> 1]

UpperBox == [LowerBox EXCEPT !.z = 120 * PX, !.id = 2]

HighBox ==
  [x |-> 0, y |-> 0, z |-> 760 * PX, w |-> 40 * PX, h |-> 50 * PX, d |-> BOX_D * PX, id |-> 3]

DropWorld == <<LowerBox, UpperBox, HighBox, BaseFloor(LayoutEmpty, 0, 4)>>

\* a running game in that world, the player spawned on the high box and
\* the key h held
InitDrop ==
  /\ boxes = DropWorld
  /\ grid = buildGrid(DropWorld)
  /\ startBox = HighBox
  /\ goalBox = pickStartGoal(DropWorld, NoBox, NoBox).goal
  /\ player = initPlayerPosition(DropWorld, HighBox, InitialPlayer)
  /\ jumpVz = calculateJumpVelocity(DropWorld)
  /\ layout = 3
  /\ scrollY = 0
  /\ inlineTransform = InitialInline
  /\ modifiedElements = <<>>
  /\ keys = [NoKeys EXCEPT !.h = TRUE]
  /\ jumpQueued = FALSE
  /\ isGrounded = FALSE
  /\ groundZ = 0
  /\ goalReached = FALSE
  /\ celebrationEl = FALSE
  /\ confetti = FALSE
  /\ running = TRUE
  /\ rafId = TRUE
  /\ scanTimerId = TRUE
  /\ inputListeners = TRUE
  /\ scrollListeners = TRUE
  /\ restartListener = FALSE
  /\ messageListener = TRUE
  /\ bodyTransformStyle = Preserve3d
  /\ originalBodyTransformStyle = PageBodyStyle
  /\ lastTime = 0
  /\ frames = 0
  /\ keyEvents = 0
  /\ pageChanges = 0
  /\ jumpsThisPress = 0
  /\ tabStates = <<>>
  /\ badgeText = ""
  /\ toggleCalls = <<>>
  /\ toggleCount = 0

\* the player walks off the high box and falls onto the two boxes
NextDrop == \E gap \in FrameGaps : Frame(gap, MaxDropFrames)

SpecDrop == InitDrop /\ [][NextDrop]_vars

\* a world of boxes that lie over one another, on a document 1400 px wide,
\* as a scan makes them and in document order: a base (top at 80) on which
\* the player is spawned; a step on it (top at 100); a wide cover whose
\* underside (z = 110) is above the head of a player on the base, but not
\* of one on the step, and which ends left of the spawn point; a box beyond
\* the cover's left edge, in the grid cells left of x = 200 only; the ground
StackWorld ==
  << [x |-> 150 * PX, y |-> 380 * PX, z |-> 0, w |-> 590 * PX, h |-> 40 * PX,
      d |-> BOX_D * PX, id |-> 1],
     [x |-> 210 * PX, y |-> 380 * PX, z |-> 20 * PX, w |-> 235 * PX, h |-> 40 * PX,
      d |-> BOX_D * PX, id |-> 2],
     [x |-> 215 * PX, y |-> 380 * PX, z |-> 110 * PX, w |-> 465 * PX, h |-> 40 * PX,
      d |-> BOX_D * PX, id |-> 3],
     [x |-> 100 * PX, y |-> 380 * PX, z |-> 60 * PX, w |-> 98 * PX, h |-> 40 * PX,
      d |-> BOX_D * PX, id |-> 4],
     BaseFloor([LayoutEmpty EXCEPT !.docW = 1400], 0, 5) >>

\* a running game in that world, the player spawned on Start and the key
\* h held
InitStack ==
  /\ boxes = StackWorld
  /\ grid = buildGrid(StackWorld)
  /\ startBox = pickStartGoal(StackWorld, NoBox, NoBox).start
  /\ goalBox = pickStartGoal(StackWorld, NoBox, NoBox).goal
  /\ player = initPlayerPosition(StackWorld, pickStartGoal(StackWorld, NoBox, NoBox).start,
                                 InitialPlayer)
  /\ jumpVz = calculateJumpVelocity(StackWorld)
  /\ layout = 3
  /\ scrollY = 0
  /\ inlineTransform = InitialInline
  /\ modifiedElements = <<>>
  /\ keys = [NoKeys EXCEPT !.h = TRUE]
  /\ jumpQueued = FALSE
  /\ isGrounded = FALSE
  /\ groundZ = 0
  /\ goalReached = FALSE
  /\ celebrationEl = FALSE
  /\ confetti = FALSE
  /\ running = TRUE
  /\ rafId = TRUE
  /\ scanTimerId = TRUE
  /\ inputListeners = TRUE
  /\ scrollListeners = TRUE
  /\ restartListener = FALSE
  /\ messageListener = TRUE
  /\ bodyTransformStyle = Preserve3d
  /\ originalBodyTransformStyle = PageBodyStyle
  /\ lastTime = 0
  /\ frames = 0
  /\ keyEvents = 0
  /\ pageChanges = 0
  /\ jumpsThisPress = 0
  /\ tabStates = <<>>
  /\ badgeText = ""
  /\ toggleCalls = <<>>
  /\ toggleCount = 0

\* the player walks left along the base, under the cover, onto the step
NextStack == \E gap \in FrameGaps : Frame(gap, MaxStackFrames)

SpecStack == InitStack /\ [][NextStack]_vars

\* the walk towards the wall with frames 1/60 s apart and frames after a
\* stall (dt clamped to 0.1 s)
NextWall == \E gap \in FrameGaps : Frame(gap, MaxWallFrames)

SpecWall == InitPlatform /\ [][NextWall]_vars

(***************************************************************************)
(* The service worker (background.ts) and the key listener                 *)
(***************************************************************************)
\* the one tab of the model
TabId == 1

\* tabStates.get(tabId) ?? false
isActive == IF TabId \in DOMAIN tabStates THEN tabStates[TabId] ELSE FALSE

\* tabStates.set(tabId, value)
TabStatesSet(value) == [t \in {TabId} |-> value]

\* seq without its i-th element
Without(seq, i) == SubSeq(seq, 1, i - 1) \o SubSeq(seq, i + 1, Len(seq))

\* toggleGame(tabId) up to its first await: isActive is read, and the
\* cleanup message is sent (active) or the injection requested (not active)
toggleGame(maxToggles) ==
  /\ toggleCount < maxToggles
  /\ toggleCount' = toggleCount + 1
  /\ toggleCalls' = Append(toggleCalls, [active |-> isActive, pc |-> "await"])
  /\ UNCHANGED <<tabStates, badgeText>>
  /\ UNCHANGED content

\* chrome.action.onClicked: the toolbar icon is clicked
IconClick(maxToggles) == toggleGame(maxToggles)

\* the key listener's keydown handler for the key z, and the service
\* worker's onMessage for its 'toggle'; inInput: e.target is an input,
\* textarea, select or contenteditable element
ToggleKey(inInput, maxToggles) ==
  IF inInput THEN toggleCount < maxToggles /\ UNCHANGED vars
  ELSE toggleGame(maxToggles)

\* cleanup() of a newly evaluated content script beside the running game
\* of an earlier evaluation: its own state is the initial one, so it stops
\* nothing; it empties the body's transform-style and removes the confetti
cleanupBeside ==
  /\ bodyTransformStyle' = ""
  /\ confetti' = FALSE
  /\ inlineTransform' = RemoveConfetti(inlineTransform)
  /\ UNCHANGED <<layout, scrollY, modifiedElements, boxes, grid, startBox, goalBox,
                 player, keys, jumpQueued, isGrounded, groundZ, jumpVz, goalReached,
                 celebrationEl, running, rafId, scanTimerId, inputListeners,
                 scrollListeners, restartListener, messageListener,
                 originalBodyTransformStyle, lastTime, frames, keyEvents,
                 pageChanges, jumpsThisPress>>

\* what an evaluation of content-script.js in the page can come to
InjectOutcomes == {"runs", "redeclared", "fails"}

\* chrome.scripting.executeScript of call i takes place.
\*   runs:       the script is evaluated on new module state; its entry
\*               point calls cleanup() when a game is there, else init()
\*   redeclared: the script was evaluated in this page before and its
\*               top-level let and const cannot be declared again: nothing
\*               runs, the promise resolves
\*   fails:      the promise rejects and the page is as it was
InjectScript(i, outcome) ==
  /\ i \in 1..Len(toggleCalls)
  /\ ~toggleCalls[i].active /\ toggleCalls[i].pc = "await"
  /\ CASE outcome = "runs" ->
            /\ IF running THEN cleanupBeside ELSE init
            /\ toggleCalls' = [toggleCalls EXCEPT ![i].pc = "ok"]
       [] outcome = "redeclared" ->
            /\ messageListener
            /\ UNCHANGED content
            /\ toggleCalls' = [toggleCalls EXCEPT ![i].pc = "ok"]
       [] outcome = "fails" ->
            /\ UNCHANGED content
            /\ toggleCalls' = [toggleCalls EXCEPT ![i].pc = "err"]
  /\ UNCHANGED <<tabStates, badgeText, toggleCount>>

\* chrome.tabs.sendMessage({action: 'cleanup'}) of call i takes place: the
\* content script's listener runs cleanup(); without a listener the
\* promise rejects
SendCleanup(i) ==
  /\ i \in 1..Len(toggleCalls)
  /\ toggleCalls[i].active /\ toggleCalls[i].pc = "await"
  /\ IF messageListener
     THEN /\ cleanup
          /\ toggleCalls' = [toggleCalls EXCEPT ![i].pc = "ok"]
     ELSE /\ UNCHANGED content
          /\ toggleCalls' = [toggleCalls EXCEPT ![i].pc = "err"]
  /\ UNCHANGED <<tabStates, badgeText, toggleCount>>

\* defect variant of ToggleResume: no catch around the injection, the tab
\* is recorded active whatever the injection came to
ToggleResumeUnguarded(i) ==
  /\ i \in 1..Len(toggleCalls)
  /\ toggleCalls[i].pc # "await"
  /\ IF toggleCalls[i].active
     THEN tabStates' = TabStatesSet(FALSE) /\ badgeText' = ""
     ELSE tabStates' = TabStatesSet(TRUE) /\ badgeText' = "ON"
  /\ toggleCalls' = Without(toggleCalls, i)
  /\ UNCHANGED toggleCount
  /\ UNCHANGED content

\* toggleGame after its await, for call i: the tab's state and the badge
ToggleResume(i) ==
  /\ i \in 1..Len(toggleCalls)
  /\ toggleCalls[i].pc # "await"
  /\ IF toggleCalls[i].active
     THEN tabStates' = TabStatesSet(FALSE) /\ badgeText' = ""
     ELSE IF toggleCalls[i].pc = "ok"
     THEN tabStates' = TabStatesSet(TRUE) /\ badgeText' = "ON"
     ELSE UNCHANGED <<tabStates, badgeText>>
  /\ toggleCalls' = Without(toggleCalls, i)
  /\ UNCHANGED toggleCount
  /\ UNCHANGED content

\* a tab whose icon is clicked and whose z key is pressed while the game
\* comes and goes; every injection is carried out
NextToggle ==
  \/ IconClick(MaxToggles)
  \/ \E inInput \in BOOLEAN : ToggleKey(inInput, MaxToggles)
  \/ \E i \in 1..MaxToggles, outcome \in InjectOutcomes \ {"fails"} : InjectScript(i, outcome)
  \/ \E i \in 1..MaxToggles : SendCleanup(i)
  \/ \E i \in 1..MaxToggles : ToggleResume(i)
  \/ Frame(SixtiethGap, MaxToggleFrames)
  \/ ScanTimer

SpecToggle == Init /\ [][NextToggle]_vars

\* layout of a tab that shows no page: the tab is closed
NoPage == 0

\* the tab's document is replaced by page l: the page is as its author
\* made it, and nothing of the content script is in it
NewDocument(l) ==
  /\ layout' = l
  /\ scrollY' = 0
  /\ inlineTransform' = InitialInline
  /\ modifiedElements' = <<>>
  /\ boxes' = <<>>
  /\ grid' = <<>>
  /\ startBox' = NoBox
  /\ goalBox' = NoBox
  /\ player' = InitialPlayer
  /\ keys' = NoKeys
  /\ jumpQueued' = FALSE
  /\ isGrounded' = FALSE
  /\ groundZ' = 0
  /\ jumpVz' = MIN_JUMP_VZ * VU
  /\ goalReached' = FALSE
  /\ celebrationEl' = FALSE
  /\ confetti' = FALSE
  /\ running' = FALSE
  /\ rafId' = FALSE
  /\ scanTimerId' = FALSE
  /\ inputListeners' = FALSE
  /\ scrollListeners' = FALSE
  /\ restartListener' = FALSE
  /\ messageListener' = FALSE
  /\ bodyTransformStyle' = PageBodyStyle
  /\ originalBodyTransformStyle' = ""
  /\ lastTime' = 0
  /\ UNCHANGED <<frames, keyEvents, jumpsThisPress>>

\* the tab navigates to page l (l = layout: a reload), and
\* chrome.tabs.onUpdated runs with changeInfo.status = 'loading'
TabLoading(l, maxNavigations) ==
  /\ layout # NoPage
  /\ pageChanges < maxNavigations
  /\ pageChanges' = pageChanges + 1
  /\ NewDocument(l)
  /\ tabStates' = TabStatesSet(FALSE)
  /\ badgeText' = ""
  /\ UNCHANGED <<toggleCalls, toggleCount>>

\* the tab is closed while no call of toggleGame is under way, and
\* chrome.tabs.onRemoved runs: tabStates.delete(tabId); the badge goes
\* with the tab
TabRemoved ==
  /\ layout # NoPage
  /\ toggleCalls = <<>>
  /\ NewDocument(NoPage)
  /\ tabStates' = <<>>
  /\ badgeText' = ""
  /\ UNCHANGED <<toggleCalls, toggleCount, pageChanges>>

\* a tab whose icon is clicked while it navigates, and which is closed in
\* the end; an injection can fail
NextNavigate ==
  \/ layout # NoPage /\ IconClick(MaxNavToggles)
  \/ \E i \in 1..MaxNavToggles, outcome \in InjectOutcomes : InjectScript(i, outcome)
  \/ \E i \in 1..MaxNavToggles : SendCleanup(i)
  \/ \E i \in 1..MaxNavToggles : ToggleResume(i)
  \/ \E l \in 1..Len(Layouts) : TabLoading(l, MaxNavigations)
  \/ TabRemoved

SpecNavigate == Init /\ [][NextNavigate]_vars

\* e.target of the key events is a text field (isInputEl) from the
\* FocusFrame-th frame on: the focus moves there and stays
focusInInput == frames >= FocusFrame

\* a game played with the keyboard while the focus moves into a text field
NextFocus ==
  \/ StartGame
  \/ \E key \in KeyNames : KeyDown(key, focusInInput, MaxFocusKeyEvents)
  \/ \E key \in KeyNames : KeyUp(key, MaxFocusKeyEvents)
  \/ Frame(SixtiethGap, MaxFocusFrames)

SpecFocus == Init /\ [][NextFocus]_vars

\* constant time steps of a jump arc: 1/60 s and 0.1 s
ArcGaps == {SixtiethGap, MaxDt}

\* a frame of a game whose frames come gap apart, all of them
ArcFrame(gap) ==
  /\ frames = 0 \/ lastTime = frames * gap
  /\ player.z > 0 - MaxArcDepth * PX
  /\ Frame(gap, IF isGrounded THEN MaxArcRestFrames ELSE MaxArcFrames)

\* a game started, left at rest, and one press of the jump key
NextArc ==
  \/ StartGame
  \/ \E gap \in ArcGaps : ArcFrame(gap)
  \/ KeyDown("space", FALSE, MaxArcKeyEvents)

\* the guard of ArcFrame: a frame is requested and within the bounds
ArcFrameReady ==
  /\ rafId /\ running
  /\ player.z > 0 - MaxArcDepth * PX
  /\ frames < (IF isGrounded THEN MaxArcRestFrames ELSE MaxArcFrames)
  /\ \E gap \in ArcGaps : frames = 0 \/ lastTime = frames * gap

\* a step that counts a frame: in NextArc the steps of ArcFrame
FrameTick == ArcFrameReady /\ frames' = frames + 1

\* the browser calls a requested frame callback
SpecArc == Init /\ [][NextArc]_vars /\ WF_frames(FrameTick)

(***************************************************************************)
(* Properties                                                              *)
(***************************************************************************)
\* a step that runs scanDOM
ScanStep == StartGame \/ ScanTimer \/ \E sy \in ScrollOffsets : ScrollResize(sy)

\* the eligible elements of page l scrolled to sy, in document order
EligibleEls ==
  [l \in 1..Len(Layouts), sy \in ScrollOffsets, c \in BOOLEAN |->
     SelectSeq(Document(l, c).els, LAMBDA el : Eligible(Document(l, c), el, sy))]

\* box b lies on el's rectangle and has an element's depth
IsBoxOf(b, el, sy) ==
  LET rect == RectOf(el, sy) IN
  /\ b.x = rect.left * PX /\ b.y = rect.top * PX
  /\ b.w = rect.width * PX /\ b.h = rect.height * PX /\ b.d = BOX_D * PX

\* el passes every test of the scan loop that does not look at its z-index
OtherwiseEligible(L, el, sy) ==
  LET rect == RectOf(el, sy) IN
  /\ el.tag \notin EXCLUDED_TAGS
  /\ ~StartsWith(el.id, DOM3D_PREFIX)
  /\ ~(el.display = "none" \/ el.visibility = "hidden")
  /\ el.position # "static"
  /\ ~(rect.width < MIN_RECT \/ rect.height < MIN_RECT)
  /\ ~(rect.right < 0 - VIEWPORT_MARGIN \/ rect.left > L.vw + VIEWPORT_MARGIN)
  /\ ~(rect.bottom < 0 - VIEWPORT_MARGIN \/ rect.top > L.vh + VIEWPORT_MARGIN)

\* the boxes of list that are boxes of el
BoxesOf(list, el, sy) == {k \in 1..Len(list) : IsBoxOf(list[k], el, sy)}

----------------------------------------------------------------------------
\* the frame callback runs with the timestamp lastTime + gap
FrameStep(gap) == frames' = frames + 1 /\ lastTime' = lastTime + gap /\ Frame(gap, frames + 1)

\* the physics state a frame starts from
Now == [p |-> player, grounded |-> isGrounded, groundZ |-> groundZ]

\* C1 as stated (landing): in every frame that starts with the player
\* airborne and falling (vz < 0), if the Z move takes the feet from at or
\* above the top of a box to below it while the footprints overlap in X and
\* Y, the frame ends with player.z on that top, vz = 0 and isGrounded.
Landing ==
  [][\A gap \in FrameGaps :
       FrameStep(gap) /\ ~isGrounded /\ player.vz < 0 =>
         LET dt == Min(gap, MaxDt)
             before == BeforeZ(queryNearby(player), Now, keys, jumpQueued, jumpVz, dt)
             moved == MovedZ(before, dt)
         IN  \A k \in 1..Len(boxes) :
               /\ overlapX(moved.p, boxes[k]) /\ overlapY(moved.p, boxes[k])
               /\ before.p.z >= BoxTop(boxes[k]) /\ moved.p.z < BoxTop(boxes[k])
               => /\ player'.z = BoxTop(boxes[k])
                  /\ player'.vz = 0
                  /\ isGrounded']_vars

----------------------------------------------------------------------------
\* C2 as stated (absolute floor): in every state player.z >= 0.
NeverBelowGround == player.z >= 0

----------------------------------------------------------------------------
----------------------------------------------------------------------------
\* C4 as stated (edge-triggered jump): between one press of the jump key and
\* its release at most one frame injects the jump velocity.
OneJumpPerPress == jumpsThisPress <= 1

----------------------------------------------------------------------------
\* the state of the X loop of a frame with time step dt when it reaches
\* near[k]; near is nearby
AtXTurn(dt, near, k) ==
  LET st == AfterInput(Now, keys, jumpQueued, jumpVz, dt)
  IN  ResolveX([st EXCEPT !.p.x = st.p.x + st.p.vx * dt], SubSeq(near, 1, k - 1), 1)

\* the state of the Y loop when it reaches near[k]
AtYTurn(dt, near, k) ==
  LET st == AfterX(AfterInput(Now, keys, jumpQueued, jumpVz, dt), near, dt)
  IN  ResolveY([st EXCEPT !.p.y = st.p.y + st.p.vy * dt], SubSeq(near, 1, k - 1), 1)

\* the player overlaps box on all three axes and the box's top is above the
\* feet by more than 0 and at most STEP_HEIGHT
ClimbableInto(st, box) ==
  /\ overlapX(st.p, box) /\ overlapY(st.p, box) /\ overlapZ(st.p, box)
  /\ BoxTop(box) - st.p.z > 0 /\ BoxTop(box) - st.p.z <= STEP_HEIGHT * PX

----------------------------------------------------------------------------
\* player footprints the grid is probed with, px: inside, on the edges of
\* and outside the document, on and off cell borders
ProbeXs == {-220, -20, 190, 580, 800}
ProbeYs == {-260, -40, 180, 400, 700}
Probes ==
  {[x |-> px * PX, y |-> py * PX, w |-> PLAYER_SIZE * PX, h |-> PLAYER_SIZE * PX] :
     px \in ProbeXs, py \in ProbeYs} \cup {[x |-> player.x, y |-> player.y, w |-> player.w, h |-> player.h]}

\* box b's footprint overlaps footprint p grown by GRID_CELL on each side
OverlapsGrown(b, p) ==
  /\ b.x < p.x + p.w + CellSize /\ b.x + b.w > p.x - CellSize
  /\ b.y < p.y + p.h + CellSize /\ b.y + b.h > p.y - CellSize

\* C6 (grid soundness): in every state, for every box of the box list and
\* every footprint, a box whose footprint overlaps the footprint grown by
\* GRID_CELL is returned by queryNearby; the result holds no box twice and
\* only boxes of the box list.
GridSound ==
  \A p \in Probes :
    LET near == queryNearby(p) IN
    /\ \A k \in 1..Len(boxes) : OverlapsGrown(boxes[k], p) => boxes[k] \in Range(near)
    /\ \A i, j \in 1..Len(near) : i # j => near[i] # near[j]
    /\ Range(near) \subseteq Range(boxes)

\* the page changed, the window scrolled and the world was scanned again;
\* the grid has several cells and the query around some footprint returns
\* several boxes, not all of them
GridSoundWitness ==
  /\ running /\ pageChanges = 1 /\ scrollY # 0
  /\ boxes = Scanned[layout, scrollY, FALSE].boxes
  /\ Cardinality(DOMAIN grid) > 1
  /\ \E p \in Probes : Len(queryNearby(p)) >= 2 /\ Len(queryNearby(p)) < Len(boxes)

----------------------------------------------------------------------------
\* the floor of page L scrolled to sy: documentElement's rectangle
IsFloorOf(b, L, sy) ==
  /\ b.z = 0 /\ b.d = FLOOR_D * PX
  /\ b.x = 0 /\ b.y = (0 - sy) * PX /\ b.w = L.docW * PX /\ b.h = L.docH * PX

\* C7 as stated (ground invariant): after every scan the box list is
\* non-empty and holds exactly one box with z = 0, and that box spans the
\* document.
GroundExactlyOne ==
  [][ScanStep =>
       /\ Len(boxes') > 0
       /\ \E k \in 1..Len(boxes') :
            /\ IsFloorOf(boxes'[k], Layouts[layout'], scrollY')
            /\ \A j \in 1..Len(boxes') : boxes'[j].z = 0 => j = k]_vars

\* C7 as the code has it: after every scan the box list is non-empty, its
\* last box is the floor (z = 0, one unit thick, spanning the document), no
\* other box is that thin, no box lies below z = 0, and a page without an
\* eligible element gives the floor alone.  Element boxes with z = 0 may
\* exist beside the floor.
GroundLast ==
  [][ScanStep =>
       LET n == Len(boxes') IN
       /\ n > 0
       /\ IsFloorOf(boxes'[n], Layouts[layout'], scrollY')
       /\ \A j \in 1..n : boxes'[j].z >= 0 /\ (boxes'[j].d = FLOOR_D * PX => j = n)
       /\ n = Len(EligibleEls[layout', scrollY', confetti]) + 1]_vars

\* a page taller than the window, with one eligible element of z-index 0,
\* was scanned after it changed and scrolled: the floor comes after the
\* element's box
GroundLastWitness ==
  /\ running /\ pageChanges = 1 /\ scrollY # 0
  /\ Len(EligibleEls[layout, scrollY, FALSE]) = 1
  /\ Len(boxes) = 2 /\ boxes[1].z = 0 /\ IsFloorOf(boxes[2], Layouts[layout], scrollY)

----------------------------------------------------------------------------
\* C8 as stated (read-only scanner): no scan changes a style or transform
\* of a page element; the page's elements are the same before and after.
ScanReadOnly == [][ScanStep => inlineTransform' = inlineTransform]_vars

----------------------------------------------------------------------------
Negative(el) == ~ParseInt(el.zIndex).nan /\ ParseInt(el.zIndex).val < 0
MissingOrInvalid(el) == el.zIndex = AUTO \/ el.zIndex = <<>> \/ ParseInt(el.zIndex).nan

----------------------------------------------------------------------------
----------------------------------------------------------------------------
\* an initializing scan: init() is the only caller of scanDOM(true)
InitScanStep == ~running /\ running' /\ StartGame

\* the boxes of list with the least (the greatest) z
LowestOf(list) == {k \in 1..Len(list) : \A m \in 1..Len(list) : list[k].z <= list[m].z}
HighestOf(list) == {k \in 1..Len(list) : \A m \in 1..Len(list) : list[k].z >= list[m].z}

\* C11 (Start/Goal selection): after an initializing scan Start and Goal are
\* both defined, Start is a box of the list with the minimum z and Goal a
\* box of the list with the maximum z, and both are a function of the box
\* list alone: the last box of the list among those with that z.
StartGoalExtremes ==
  [][InitScanStep =>
       /\ Len(boxes') > 0
       /\ startBox' # NoBox /\ goalBox' # NoBox
       /\ \E k \in LowestOf(boxes') :
            /\ startBox' = boxes'[k]
            /\ \A m \in LowestOf(boxes') : m <= k
       /\ \E k \in HighestOf(boxes') :
            /\ goalBox' = boxes'[k]
            /\ \A m \in HighestOf(boxes') : m <= k]_vars

\* a started game on a page with several boxes at the least z, one of them
\* Start, and a higher box as Goal
StartGoalExtremesWitness ==
  /\ running /\ frames = 0 /\ pageChanges = 0
  /\ boxes = Scanned[layout, scrollY, FALSE].boxes
  /\ Cardinality(LowestOf(boxes)) >= 2
  /\ \E k \in LowestOf(boxes) : startBox = boxes[k]
  /\ \E k \in HighestOf(boxes) : goalBox = boxes[k]
  /\ goalBox.z > startBox.z

----------------------------------------------------------------------------
\* C12 (tie-break): after an initializing scan of a world with more than one
\* box, Goal is a different box from Start, also when all boxes share the
\* same z.
GoalDiffersFromStart ==
  [][InitScanStep => (Len(boxes') > 1 => goalBox' # startBox')]_vars

----------------------------------------------------------------------------
\* a scan without player initialization: the scan interval or a scroll/resize
RescanStep == running /\ (ScanTimer \/ \E sy \in ScrollOffsets : ScrollResize(sy))

\* C13 (rescan never teleports): a scan without player initialization, run by
\* the scan interval or by a scroll or resize, leaves the player's x, y, z,
\* vx, vy, vz and isGrounded and groundZ unchanged.
RescanKeepsPlayer ==
  [][RescanStep => UNCHANGED <<player, isGrounded, groundZ>>]_vars

\* the boxes of the scrolled page under a player that has left its spawn
\* point and is falling
RescanKeepsPlayerWitness ==
  /\ running /\ frames >= 1 /\ scrollY # 0
  /\ boxes = Scanned[layout, scrollY, FALSE].boxes
  /\ ~isGrounded /\ player.vz < 0
  /\ player # initPlayerPosition(boxes, startBox, InitialPlayer)

----------------------------------------------------------------------------
\* C14 (Start/Goal follow the world): while the game runs, Start and Goal
\* are boxes of the current box list, Start with the minimum z and Goal with
\* the maximum z of that list, also after rescans.
StartGoalOfCurrentBoxes ==
  running =>
    /\ \E k \in LowestOf(boxes) : startBox = boxes[k]
    /\ \E k \in HighestOf(boxes) : goalBox = boxes[k]

----------------------------------------------------------------------------
\* what the game computes: the world, the player and the page's transforms
gameState == <<boxes, grid, startBox, goalBox, player, isGrounded, groundZ, jumpVz,
               jumpQueued, keys, goalReached, celebrationEl, confetti, lastTime,
               inlineTransform, modifiedElements>>

\* C15 (teardown is final): cleanup() leaves the game stopped with an empty
\* box list, an empty grid and no Start and Goal, and from then on, until
\* the game is started again, no frame callback, scan interval tick, scroll
\* or resize, key event or restart key changes the world, the player or
\* the page's transforms.
TeardownFinal ==
  [][/\ (messageListener /\ Cleanup) =>
          /\ ~running'
          /\ boxes' = <<>> /\ grid' = <<>>
          /\ startBox' = NoBox /\ goalBox' = NoBox
     /\ (~running /\ ~running') => UNCHANGED gameState]_vars

\* a game torn down after the goal was celebrated, frames ran, the page was
\* scrolled and a key was still held
TeardownFinalWitness ==
  /\ messageListener /\ ~running
  /\ frames >= 2 /\ scrollY # 0 /\ keys.l
  /\ boxes = <<>> /\ player = InitialPlayer
  /\ ~rafId /\ ~scanTimerId /\ ~inputListeners /\ ~scrollListeners /\ ~restartListener

----------------------------------------------------------------------------
\* a step that reports the goal for the first time
GoalReport == ~goalReached /\ goalReached'

----------------------------------------------------------------------------
\* C17 (goal detection has no effect on physics): a frame leaves the player,
\* isGrounded and groundZ as its physics step computed them, whether or not
\* its goal check reports the goal, and every physics step proceeds as it
\* does when the goal has not been reached: on the boxes of the page alone.
GoalNoEffectOnPhysics ==
  [][\A gap \in FrameGaps :
       FrameStep(gap) =>
         LET res == physics(Scanned[layout, scrollY, FALSE].grid, Now, keys,
                            jumpQueued, jumpVz, Min(gap, MaxDt))
         IN  /\ player' = res.p
             /\ isGrounded' = res.grounded
             /\ groundZ' = res.groundZ]_vars

----------------------------------------------------------------------------
\* the velocity the held keys ask for on one axis: plus beats minus
Intent(minus, plus) ==
  IF plus THEN MOVE_SPEED * VU ELSE IF minus THEN 0 - MOVE_SPEED * VU ELSE 0

\* no box of near is in the way of the player at p
Unblocked(p, near) == \A k \in 1..Len(near) : ~intersects(p, near[k])

\* C18 (horizontal intent): every physics step sets vx from h and l alone
\* (-MOVE_SPEED for h, +MOVE_SPEED for l, l wins, 0 for neither) and vy
\* from k and j alone (j wins); a collision can only zero them.  When no box
\* is in the way of the move, the player ends the step displaced by the
\* velocity times dt: x strictly grows with l held, strictly falls with
\* only h held, and y likewise with j and k.
HorizontalIntent ==
  [][\A gap \in FrameGaps :
       FrameStep(gap) =>
         LET dt == Min(gap, MaxDt)
             near == queryNearby(player)
             ix == Intent(keys.h, keys.l)
             iy == Intent(keys.k, keys.j)
             freeX == Unblocked(AtXTurn(dt, near, 1).p, near)
             freeY == Unblocked(AtYTurn(dt, near, 1).p, near)
         IN  /\ player'.vx \in {ix, 0}
             /\ player'.vy \in {iy, 0}
             /\ freeX => /\ player'.vx = ix
                         /\ player'.x = player.x + ix * dt
                         /\ keys.l => player'.x > player.x
                         /\ (keys.h /\ ~keys.l) => player'.x < player.x
                         /\ (~keys.h /\ ~keys.l) => player'.x = player.x
             /\ freeY => /\ player'.vy = iy
                         /\ player'.y = player.y + iy * dt
                         /\ keys.j => player'.y > player.y
                         /\ (keys.k /\ ~keys.j) => player'.y < player.y
                         /\ (~keys.k /\ ~keys.j) => player'.y = player.y]_vars

\* h and l held together, and the player has moved right of its spawn point
HorizontalIntentWitness ==
  /\ running /\ frames >= 1 /\ keys.h /\ keys.l
  /\ player.vx = MOVE_SPEED * VU
  /\ player.x > initPlayerPosition(boxes, startBox, InitialPlayer).x

\* k and j held together, and the player has moved down from its spawn point
VerticalIntentWitness ==
  /\ running /\ frames >= 1 /\ keys.k /\ keys.j
  /\ player.vy = MOVE_SPEED * VU
  /\ player.y > initPlayerPosition(boxes, startBox, InitialPlayer).y

----------------------------------------------------------------------------
\* C19 (maximum-dt clamp): for every pair of consecutive frame timestamps
\* the frame is the physics step of a dt that is the time between them and
\* never more than 0.1 s: the step's gravity takes at most GRAVITY * 0.1
\* off vz.
DtClamped ==
  [][\A gap \in FrameGaps :
       FrameStep(gap) =>
         LET elapsed == lastTime' - lastTime
             dt == IF elapsed > MaxDt THEN MaxDt ELSE elapsed
             res == physics(grid, Now, keys, jumpQueued, jumpVz, dt)
             vz0 == IF jumpQueued /\ isGrounded THEN jumpVz ELSE player.vz
         IN  /\ dt * 10 <= TicksPerSecond
             /\ player' = res.p /\ isGrounded' = res.grounded /\ groundZ' = res.groundZ
             /\ \/ player'.vz = 0
                \/ player'.vz >= vz0 - (GRAVITY * VU) \div 10]_vars

\* a frame 0.15 s after the game started: the player has walked off its
\* platform and falls at GRAVITY * 0.1
DtClampedWitness ==
  /\ running /\ frames = 1 /\ lastTime > MaxDt
  /\ ~isGrounded
  /\ player.vz = 0 - (GRAVITY * VU) \div 10

----------------------------------------------------------------------------
\* the world is the ground box alone and every frame so far came 1/60 s
\* after the one before
GroundOnlyAtSixty == running /\ frames >= 1 /\ Len(boxes) = 1 /\ lastTime = frames * 10

\* C20 (scenario A), as stated: in a world of the ground box alone, the
\* player spawned at Start and stepped without input at dt = 1/60 has z = 0
\* and isGrounded = true after every one of the 10 steps.
RestAtZero ==
  GroundOnlyAtSixty => (player.z = 0 /\ isGrounded)

\* C20 as the code has it: after every one of the 10 steps the player's z is
\* the top of the ground box, z + d = 1 px, with vz = 0 and isGrounded = true.
RestOnGroundTop ==
  GroundOnlyAtSixty =>
    /\ player.z = BoxTop(boxes[1]) /\ boxes[1].z = 0 /\ player.z = FLOOR_D * PX
    /\ player.vz = 0
    /\ isGrounded
    /\ player.x = initPlayerPosition(boxes, startBox, InitialPlayer).x
    /\ player.y = initPlayerPosition(boxes, startBox, InitialPlayer).y

\* the tenth step on the ground alone
RestOnGroundTopWitness ==
  /\ GroundOnlyAtSixty /\ frames = MaxRestFrames
  /\ startBox = boxes[1] /\ keys = NoKeys

----------------------------------------------------------------------------
\* the player's footprint overlaps box's
Over(p, box) == overlapX(p, box) /\ overlapY(p, box)

\* a frame 1/60 s after the one before in a platform world, with only h held
PlatformStep == FrameStep(SixtiethGap) /\ keys = [NoKeys EXCEPT !.h = TRUE]

\* the player after the X move of a frame of time step dt, before the X loop
MovedX(dt) == AtXTurn(dt, queryNearby(player), 1).p

\* C21 (scenario B), as stated: with the player spawned on the platform
\* and left held, every step at dt = 1/60 takes MOVE_SPEED * dt off
\* player.x unless a box blocks the move, and player.z is the platform's
\* top (110) after every one of the 20 steps.
PlatformWalkStays ==
  [][PlatformStep =>
       /\ Unblocked(MovedX(SixtiethGap), queryNearby(player)) =>
            player'.x = player.x - MOVE_SPEED * VU * SixtiethGap
       /\ player'.z = PLATFORM_TOP * PX]_vars

\* C21 as the code has it: every step takes MOVE_SPEED * dt off player.x
\* unless a box blocks the move, and then x does not grow; after a step
\* that ends with the player's footprint over the platform's, player.z is
\* the platform's top (110) with vz = 0 and isGrounded = true; after a step
\* that ends with the footprint clear of the platform the player is lower
\* than before the step and not grounded.
PlatformWalk ==
  [][PlatformStep =>
       /\ Unblocked(MovedX(SixtiethGap), queryNearby(player)) =>
            player'.x = player.x - MOVE_SPEED * VU * SixtiethGap
       /\ player'.x <= player.x
       /\ Over(player', boxes[1]) =>
            /\ player'.z = BoxTop(boxes[1]) /\ player'.z = PLATFORM_TOP * PX
            /\ player'.vz = 0 /\ isGrounded'
       /\ ~Over(player', boxes[1]) =>
            /\ player'.z < player.z /\ ~isGrounded']_vars

\* 20 steps across the platform of 200 px: the player has moved left by
\* 20 * MOVE_SPEED / 60 = 100 px and stands on the platform's top
PlatformWalkWitness ==
  /\ frames = MaxPlatformFrames /\ keys.h
  /\ boxes[1].w = 200 * PX /\ Len(boxes) = 2
  /\ player.x = initPlayerPosition(boxes, boxes[1], InitialPlayer).x - 100 * PX
  /\ player.z = PLATFORM_TOP * PX /\ isGrounded

\* 7 steps from the middle of the platform of 50 px: the player has left
\* the platform's edge and falls
PlatformEdgeWitness ==
  /\ frames = 7 /\ boxes[1].w = 50 * PX /\ boxes[1].d = 10 * PX /\ Len(boxes) = 2
  /\ player.x = (0 - PLAYER_SIZE) * PX
  /\ player.z < PLATFORM_TOP * PX /\ ~isGrounded

----------------------------------------------------------------------------
\* the height the player rests at where it was spawned
RestZ == initPlayerPosition(boxes, startBox, InitialPlayer).z

\* the player has left its resting height by a jump and rises
Rising == running /\ ~isGrounded /\ player.vz > 0 /\ player.z > RestZ

----------------------------------------------------------------------------
\* no call of toggleGame is under way
Quiescent == toggleCalls = <<>>

\* C23 (toggle consistency), as stated: whenever no toggle is under way,
\* the badge shows ON and the tab is recorded active exactly when the game
\* runs, and the game runs exactly after an odd number of toggles: the
\* first starts it, the next tears it down, and so on, also when a toggle
\* arrives before an earlier one's injection or cleanup has completed.
ToggleAlternates ==
  Quiescent =>
    /\ (badgeText = "ON") = isActive
    /\ isActive = running
    /\ running = (toggleCount % 2 = 1)

----------------------------------------------------------------------------
\* C24 (controls disabled in text fields), as stated: while the focus is
\* in a text field no step sets a movement key or queues a jump, and every
\* frame leaves the player without movement from the keys (vx = vy = 0)
\* and starts no jump.
ControlsDisabledInInput ==
  [][focusInInput =>
       /\ \A key \in KeyNames : keys'[key] => keys[key]
       /\ jumpQueued' => jumpQueued
       /\ frames' = frames + 1 =>
            /\ player'.vx = 0 /\ player'.vy = 0
            /\ ~(jumpQueued /\ isGrounded)]_vars

----------------------------------------------------------------------------
\* the player stands on box: grounded, feet on the box's top, footprints
\* overlapping
RestingOn(box) ==
  /\ isGrounded /\ player.z = BoxTop(box)
  /\ overlapX(player, box) /\ overlapY(player, box)

\* C25 (axis conditioning): in every frame, when the X loop (the Y loop)
\* reaches a box, resolving it changes the physics state (push, velocity
\* zeroed, step-up) only if the box's Y and Z ranges (X and Z ranges)
\* overlap the player's at that moment; and a box on whose top the player
\* rests when the frame starts changes nothing in either loop.
AxisConditioning ==
  [][\A gap \in FrameGaps :
       FrameStep(gap) =>
         LET dt == Min(gap, MaxDt)
             near == queryNearby(player)
         IN  \A k \in 1..Len(near) :
               /\ LET st == AtXTurn(dt, near, k)
                      res == ResolveXBox(st, near[k])
                  IN  /\ res # st => overlapY(st.p, near[k]) /\ overlapZ(st.p, near[k])
                      /\ RestingOn(near[k]) => res = st
               /\ LET st == AtYTurn(dt, near, k)
                      res == ResolveYBox(st, near[k])
                  IN  /\ res # st => overlapX(st.p, near[k]) /\ overlapZ(st.p, near[k])
                      /\ RestingOn(near[k]) => res = st]_vars

\* the player has walked along the top of a box above the floor and still
\* stands on it, moving
AxisConditioningWitness ==
  /\ running /\ frames >= 2 /\ player.vx # 0
  /\ player.x # initPlayerPosition(boxes, startBox, InitialPlayer).x
  /\ \E i \in 1..Len(boxes) : boxes[i].z + boxes[i].d > PX /\ RestingOn(boxes[i])

----------------------------------------------------------------------------
\* the X loop reaches box with the player moved into it from a side: the
\* frame started clear of the box in X, the move alone brought the player
\* to where it is, all three ranges overlap and the box is no step
MovedIntoX(st, box, dt) ==
  /\ ~overlapX(player, box)
  /\ st.p.x = player.x + st.p.vx * dt
  /\ overlapX(st.p, box) /\ overlapY(st.p, box) /\ overlapZ(st.p, box)
  /\ ~IsStep(st, box)

\* the same for the Y loop
MovedIntoY(st, box, dt) ==
  /\ ~overlapY(player, box)
  /\ st.p.y = player.y + st.p.vy * dt
  /\ overlapX(st.p, box) /\ overlapY(st.p, box) /\ overlapZ(st.p, box)
  /\ ~IsStep(st, box)

\* C26 (no horizontal pass-through), as stated: in every frame, for every
\* time step up to the clamp, a player that has moved in X (in Y) into a
\* box it cannot step onto is put back on the side it came from, touching
\* the box, with the velocity on that axis 0.
NoPassThrough ==
  [][\A gap \in FrameGaps :
       FrameStep(gap) =>
         LET dt == Min(gap, MaxDt)
             near == queryNearby(player)
         IN  \A k \in 1..Len(near) :
               /\ LET st == AtXTurn(dt, near, k)
                      res == ResolveXBox(st, near[k])
                  IN  MovedIntoX(st, near[k], dt) =>
                        /\ res.p.vx = 0
                        /\ res.p.x = IF player.x < near[k].x THEN near[k].x - player.w
                                     ELSE near[k].x + near[k].w
               /\ LET st == AtYTurn(dt, near, k)
                      res == ResolveYBox(st, near[k])
                  IN  MovedIntoY(st, near[k], dt) =>
                        /\ res.p.vy = 0
                        /\ res.p.y = IF player.y < near[k].y THEN near[k].y - player.h
                                     ELSE near[k].y + near[k].h]_vars

----------------------------------------------------------------------------
\* the Z move of a frame takes the player, moving upward, from below box
\* into it: before is the state before the Z move, dt the time step
EntersFromBelow(before, box, dt) ==
  /\ before.p.vz > 0
  /\ before.p.z + before.p.d <= box.z
  /\ intersects(MovedZ(before, dt).p, box)

\* C27 (ceiling hit), as stated: every frame whose Z move takes the player
\* upward into a box from below ends with player.z = box.z - player.d and
\* vz = 0, and the player is not put on that box's top.
CeilingHit ==
  [][\A gap \in FrameGaps :
       FrameStep(gap) =>
         LET dt == Min(gap, MaxDt)
             near == queryNearby(player)
             before == BeforeZ(near, Now, keys, jumpQueued, jumpVz, dt)
         IN  \A k \in 1..Len(near) :
               EntersFromBelow(before, near[k], dt) =>
                 /\ player'.z = near[k].z - player.d
                 /\ player'.vz = 0
                 /\ player'.z # BoxTop(near[k])]_vars

----------------------------------------------------------------------------
\* C28 (meaning of grounded), as stated: every frame that ends with
\* isGrounded ends with vz = 0 and with player.z on the top of a box of the
\* world whose footprint overlaps the player's.
GroundedOnTop ==
  [][(frames' = frames + 1 /\ isGrounded') =>
       /\ player'.vz = 0
       /\ \E i \in 1..Len(boxes) :
            /\ player'.z = BoxTop(boxes[i])
            /\ overlapX(player', boxes[i]) /\ overlapY(player', boxes[i])]_vars

----------------------------------------------------------------------------
\* values of groundZ a second run starts a step with, px: the floor, a
\* box top, above every box, below the floor
GroundZProbes == {0, BOX_D, 2 * Z_MAX, 0 - BOX_D}

\* C29 (groundZ is informational): in every frame, the physics step from
\* the state that differs from the current one only in groundZ, with the
\* same keys, dt and boxes, ends with the same x, y, z, vx, vy, vz and
\* isGrounded as the frame does, and with the same groundZ, so that the two
\* runs go on from one state.
GroundZInformational ==
  [][\A gap \in FrameGaps :
       FrameStep(gap) =>
         \A gz \in GroundZProbes :
           LET other == physics(grid, [Now EXCEPT !.groundZ = gz * PX], keys,
                                jumpQueued, jumpVz, Min(gap, MaxDt))
           IN  /\ other.p = player'
               /\ other.grounded = isGrounded'
               /\ other.groundZ = groundZ']_vars

\* frames have been taken from a state with groundZ on a box top above
\* the floor, which the probes 0 and 2 * Z_MAX differ from
GroundZInformationalWitness ==
  /\ running /\ frames >= 2 /\ isGrounded
  /\ groundZ > FLOOR_D * PX /\ groundZ = player.z

----------------------------------------------------------------------------
\* the elements of the document that the game has made: those with an id
\* of the game's prefix, and the confetti pieces
OwnElements ==
  {i \in 1..Len(Layouts[layout].els) : StartsWith(Layouts[layout].els[i].id, DOM3D_PREFIX)}
    \cup ConfettiIds

\* C30 (the game never scans its own elements), as stated: at every point of
\* a session no element made by the game is among the elements the last
\* scan made boxes of (each is recorded in modifiedElements), and none has
\* had its inline transform written.
NeverScansOwn ==
  /\ \A i \in 1..Len(modifiedElements) : modifiedElements[i].el \notin OwnElements
  /\ \A e \in OwnElements : inlineTransform[e] = InitialInline[e]

----------------------------------------------------------------------------
\* p stands where a spawn on start in the world bs puts a player: centred
\* on start, feet on the highest top under its footprint and not below
\* start's top, at rest, inside no box
Spawned(p, bs, start) ==
  /\ 2 * p.x + p.w = 2 * start.x + start.w
  /\ 2 * p.y + p.h = 2 * start.y + start.h
  /\ p.z >= BoxTop(start)
  /\ \A i \in 1..Len(bs) :
       overlapX(p, bs[i]) /\ overlapY(p, bs[i]) => p.z >= BoxTop(bs[i])
  /\ \/ p.z = BoxTop(start)
     \/ \E i \in 1..Len(bs) :
          overlapX(p, bs[i]) /\ overlapY(p, bs[i]) /\ p.z = BoxTop(bs[i])
  /\ \A i \in 1..Len(bs) : ~intersects(p, bs[i])
  /\ p.vx = 0 /\ p.vy = 0 /\ p.vz = 0

\* C31 (spawn placement): the scan of init() leaves the player spawned on
\* the Start it has just picked; and in every state of a game the spawn
\* applied to the player as it is leaves a player that has moved (z or vz
\* not 0) untouched and puts one that has not on the Start.
SpawnPlacement ==
  [][/\ (~running /\ running') =>
          /\ startBox' = pickStartGoal(boxes', startBox, goalBox).start
          /\ Spawned(player', boxes', startBox')
     /\ running' =>
          LET again == initPlayerPosition(boxes', startBox', player')
          IN  IF player'.z # 0 \/ player'.vz # 0 THEN again = player'
              ELSE Spawned(again, boxes', startBox')]_vars

\* a game has started with the player put above the Start's top, on a
\* higher box under its footprint
SpawnPlacementWitness ==
  /\ running /\ frames = 0 /\ lastTime = 0
  /\ player.z > BoxTop(startBox)
  /\ Spawned(player, boxes, startBox)

----------------------------------------------------------------------------
\* C32 (jump requests are not buffered), as stated: every frame leaves no
\* jump request pending; a frame that does not begin with isGrounded and a
\* request pending gives the player no upward velocity it did not have;
\* and the frames between a press of the jump key and its release start at
\* most one jump.
JumpNotBuffered ==
  [][frames' = frames + 1 =>
       /\ ~jumpQueued'
       /\ ~(jumpQueued /\ isGrounded) => player'.vz <= Max(0, player.vz)
       /\ jumpsThisPress' <= 1]_vars

----------------------------------------------------------------------------
\* every box of the world under the footprint of p is in near
NearCovers(p, near) ==
  \A i \in 1..Len(boxes) :
    overlapX(p, boxes[i]) /\ overlapY(p, boxes[i]) =>
      \E k \in 1..Len(near) : near[k] = boxes[i]

\* C33 (the neighbour set stays valid), as stated: in every frame the
\* boxes under the player's footprint are in the set queried before the
\* moves, whenever the X loop or the Y loop reaches a box, and after the
\* Y loop, where the footprint is the one of the Z loop and of the groundZ
\* refresh.
NearbyStaysValid ==
  [][\A gap \in FrameGaps :
       FrameStep(gap) =>
         LET dt == Min(gap, MaxDt)
             near == queryNearby(player)
         IN  /\ \A k \in 1..(Len(near) + 1) :
                  /\ NearCovers(AtXTurn(dt, near, k).p, near)
                  /\ NearCovers(AtYTurn(dt, near, k).p, near)
             /\ NearCovers(player', near)]_vars

\* the player intersects no box of the world
Clear(p) == \A i \in 1..Len(boxes) : ~intersects(p, boxes[i])

\* C34 (no penetration), as stated: in a world that no rescan changes, a
\* frame that starts with the player intersecting no box ends with the
\* player intersecting no box.
NoPenetration ==
  [][(frames' = frames + 1 /\ boxes' = boxes /\ Clear(player)) => Clear(player')]_vars

\* the key r was pressed while onRestartKey was registered
Restarted == keyEvents' = keyEvents + 1 /\ restartListener /\ ~restartListener'

\* C35 (restart returns to the spawn), as stated: after restartGame() the
\* player is where initPlayerPosition puts a new player in the same world
\* (centred on Start, on the highest surface under it, at rest), and
\* goalReached is false.
RestartToSpawn ==
  [][Restarted =>
       /\ player' = initPlayerPosition(boxes, startBox, InitialPlayer)
       /\ ~goalReached']_vars

\* C36 (page restoration round trip): while a game runs, a page element's
\* inline transform is the page's own or the one the scan makes of the
\* page's own (never of an earlier scan's), and every entry of
\* modifiedElements remembers the page's own; once the game is torn down
\* the inline transforms and the body's transform-style are the page's own
\* and modifiedElements is empty.
RestoreRoundTrip ==
  /\ \A i \in ElIds :
       \/ inlineTransform[i] = InitialInline[i]
       \/ /\ running
          /\ inlineTransform[i] = LiftedTransform(Layouts[layout].els[i], InitialInline[i])
          /\ \E k \in 1..Len(modifiedElements) : modifiedElements[k].el = i
  /\ \A k \in 1..Len(modifiedElements) :
       modifiedElements[k].originalTransform = InitialInline[modifiedElements[k].el]
  /\ ~running =>
       /\ inlineTransform = InitialInline
       /\ bodyTransformStyle = PageBodyStyle
       /\ modifiedElements = <<>>

\* a game that rescanned a scrolled page has been torn down
RestoreRoundTripWitness ==
  /\ ~running
  /\ messageListener
  /\ scrollY # 0
  /\ inlineTransform = InitialInline
  /\ bodyTransformStyle = PageBodyStyle

\* the largest gap between consecutive sorted box tops of boxList, px
StageMaxStep(boxList) ==
  IF Len(boxList) < 2 THEN 0
  ELSE MaxStepFrom(SortedTops([i \in 1..Len(boxList) |-> BoxTop(boxList[i])]), 2, 0) \div PX

\* C37 (jump strength matches the stage), as stated: in every frame of a
\* running game jumpVz >= MIN_JUMP_VZ and
\* jumpVz^2 >= 2 * GRAVITY * JUMP_MARGIN * maxStep for the maxStep of the
\* box list the frame's physics step runs in (jumpVz in 1/VU px/s).
JumpMatchesStage ==
  [][frames' = frames + 1 =>
       /\ jumpVz >= MIN_JUMP_VZ * VU
       /\ jumpVz * jumpVz >=
            ((2 * GRAVITY * JUMP_MARGIN_NUM * StageMaxStep(boxes)) \div 10) * VU * VU]_vars

----------------------------------------------------------------------------
\* call i of toggleGame, whose injection or cleanup message failed, returns
FailedReturns(i) ==
  /\ i \in 1..Len(toggleCalls)
  /\ toggleCalls[i].pc = "err"
  /\ toggleCalls' = Without(toggleCalls, i)

NavigationResets ==
  [][/\ pageChanges' = pageChanges + 1 =>
          TabId \in DOMAIN tabStates' /\ ~isActive' /\ badgeText' = ""
     /\ (layout # NoPage /\ layout' = NoPage) => TabId \notin DOMAIN tabStates'
     /\ (toggleCount' = 1 /\ toggleCalls' = <<>> /\ isActive' /\ badgeText' = "ON")
          => running']_vars

====
